---- MODULE Spec2Model ----
(***************************************************************************)
(* El Triciclo del Sabor: point of sale, catalog, presentation registry,   *)
(* undo log and local-storage persistence of src/app.js, as a state        *)
(* machine.                                                                *)
(*                                                                         *)
(* Units.  Money is counted in thousandths (6.60 is 6600), volume in       *)
(* decilitres (0.5 L is 5) and pricePerLiter in thousandths per decilitre, *)
(* so that pricePerLiter * liters is an exact integer.  The rounding of    *)
(* IEEE doubles is not modelled.                                           *)
(*                                                                         *)
(* A JavaScript value that may be null is a sequence of length 0 or 1.     *)
(* A product name is a sequence of one-character strings, so that trim()   *)
(* and toLowerCase() are computed; presentation names are strings.         *)
(* Fields no modelled operation reads (color, category, createdAt,         *)
(* updatedAt, an expense's categoryId and description) are left out of the *)
(* records.                                                                *)
(***************************************************************************)
EXTENDS Integers, Sequences, FiniteSets, TLC

VARIABLES
    products,           \* AppState.data.products
    presentations,      \* AppState.data.presentations
    posActiveProducts,  \* AppState.data.posActiveProducts (the session)
    salesHistory,       \* AppState.data.salesHistory
    expenses,           \* AppState.data.expenses
    expenseCategories,  \* AppState.data.expenseCategories
    stack,              \* UndoStack._stack
    stored,             \* localStorage[Storage.KEY]: <<>> or <<document>>
    idSeq,              \* source of Utils.generateId(): ids never repeat
    last,               \* the handler that ran last, its arguments and outcome
    s0,                 \* history: the session as startPosDay left it
    nOps,               \* history: successful counter operations since s0
    nUndo,              \* history: undoPosAction calls since the last of them
    doc,                \* the parsed import file handed to validateImportData
    steps,              \* history: handlers run so far (SpecApp)
    assigned,           \* history: the ids presentations were given (SpecIds)
    worker,             \* the service worker: its state, the Cache, the fetches
    modal               \* the modal overlays of the document and their timers

vars == <<products, presentations, posActiveProducts, salesHistory, expenses,
          expenseCategories, stack, stored, idSeq, last, s0, nOps, nUndo, doc,
          steps, assigned, worker, modal>>

\* what lies outside AppState, UndoStack and localStorage
aside == <<worker, modal>>

dataVars == <<products, presentations, posActiveProducts, salesHistory,
              expenses, expenseCategories>>

hist == <<s0, nOps, nUndo, steps, assigned, aside>>

(***************************************************************************)
(* Bounds of the model.                                                    *)
(***************************************************************************)
MaxCount == 3

MaxDepth == 2

\* SpecUndo: the count one counter may reach, above UndoStack._maxSize
MaxDeepCount == 52

MaxCloses == 1
\* products saveProduct creates in one run of SpecCatalog
MaxCreates == 2
\* expenses entered before a file is imported in SpecImport
MaxExpenses == 1
\* entries of the presentation registry in SpecRegistry, and the largest id
\* given to one of them
MaxPresentations == 3
MaxPresentationId == 4
\* handlers run in one behaviour of SpecApp
MaxSteps == 3
\* products of a catalog in SpecStart
MaxCatalog == 3

(***************************************************************************)
(* JavaScript values.                                                      *)
(***************************************************************************)
Null == <<>>

Some(x) == <<x>>

IsNull(v) == Len(v) = 0

Val(v) == v[1]

\* v || 0 on a number
OrZero(n) == IF n = 0 THEN 0 ELSE n

Max(a, b) == IF a >= b THEN a ELSE b

\* Array.prototype.findIndex with a predicate on the element: 0 when none
FindIndex(s, Test(_)) ==
    IF \E i \in 1..Len(s) : Test(s[i])
    THEN CHOOSE i \in 1..Len(s) : Test(s[i]) /\ \A j \in 1..(i - 1) : ~Test(s[j])
    ELSE 0

\* Array.prototype.filter
Filter(s, Test(_)) == SelectSeq(s, Test)

(***************************************************************************)
(* The state document.                                                     *)
(***************************************************************************)
Data ==
    [ products          |-> products,
      salesHistory      |-> salesHistory,
      expenses          |-> expenses,
      expenseCategories |-> expenseCategories,
      posActiveProducts |-> posActiveProducts,
      presentations     |-> presentations ]

\* Storage.save(): the whole document replaces the stored one
save == stored' = Some(Data')

\* a handler that returns early: nothing is written
Untouched(op, outcome) ==
    /\ last' = [op |-> op, outcome |-> outcome]
    /\ UNCHANGED <<dataVars, stack, stored, idSeq>>

(***************************************************************************)
(* UndoStack.                                                              *)
(***************************************************************************)
maxSize == 50

\* JSON.parse(JSON.stringify(session)): every entry and item is rebuilt
JsonCopyItem(pi) ==
    [presentationId |-> pi.presentationId, count |-> pi.count, price |-> pi.price]

JsonCopyPres(pr) ==
    [id |-> pr.id, name |-> pr.name, liters |-> pr.liters, price |-> pr.price]

JsonCopyEntry(e) ==
    [ id               |-> e.id,
      name             |-> e.name,
      pricePerLiter    |-> e.pricePerLiter,
      presentations    |-> [k \in 1..Len(e.presentations) |-> JsonCopyPres(e.presentations[k])],
      presentationItems |-> [k \in 1..Len(e.presentationItems) |-> JsonCopyItem(e.presentationItems[k])] ]

JsonCopy(session) == [i \in 1..Len(session) |-> JsonCopyEntry(session[i])]

\* mutant: the log is trimmed one push too early
ShiftIfOver_Early(st) == IF Len(st) >= maxSize THEN Tail(st) ELSE st

\* mutant: pop() where shift() was meant, the newest snapshot is dropped
ShiftIfOver_Pop(st) == IF Len(st) > maxSize THEN SubSeq(st, 1, Len(st) - 1) ELSE st

\* if (this._stack.length > this._maxSize) this._stack.shift()
ShiftIfOver(st) == IF Len(st) > maxSize THEN Tail(st) ELSE st

\* UndoStack.push(): the stack after pushing a copy of `session`
UndoPush(st, session) == ShiftIfOver(Append(st, JsonCopy(session)))

\* UndoStack.canUndo()
canUndo == Len(stack) > 0

(***************************************************************************)
(* Views._calculatePosTotal.                                               *)
(***************************************************************************)
\* mutant: the count is left out of the product
ItemAmount_Mutant(pi) == OrZero(pi.price)

\* s + ((pi.price || 0) * (pi.count || 0))
ItemAmount(pi) == OrZero(pi.price) * OrZero(pi.count)

RECURSIVE PresTotal(_)
\* (prod.presentationItems || []).reduce(..., 0)
PresTotal(items) ==
    IF Len(items) = 0 THEN 0
    ELSE PresTotal(SubSeq(items, 1, Len(items) - 1)) + ItemAmount(items[Len(items)])

RECURSIVE calculatePosTotal(_)
\* AppState.data.posActiveProducts.reduce((sum, prod) => sum + presTotal, 0)
calculatePosTotal(session) ==
    IF Len(session) = 0 THEN 0
    ELSE calculatePosTotal(SubSeq(session, 1, Len(session) - 1))
         + PresTotal(session[Len(session)].presentationItems)

(***************************************************************************)
(* Actions.startPosDay.                                                    *)
(***************************************************************************)
\* (pres.price != null) ? pres.price : ((p.pricePerLiter || 0) * pres.liters)
\* mutant: an override of 0 counts as no override (pres.price ? ... : ...)
ResolvePrice_Mutant(p, pres) ==
    IF ~IsNull(pres.price) /\ Val(pres.price) # 0 THEN Val(pres.price)
    ELSE OrZero(p.pricePerLiter) * pres.liters

ResolvePrice(p, pres) ==
    IF ~IsNull(pres.price) THEN Val(pres.price)
    ELSE OrZero(p.pricePerLiter) * pres.liters

SessionEntry(p) ==
    [ id               |-> p.id,
      name             |-> p.name,
      pricePerLiter    |-> p.pricePerLiter,
      presentations    |-> p.presentations,
      presentationItems |->
          [k \in 1..Len(p.presentations) |->
              [ presentationId |-> p.presentations[k].id,
                count          |-> 0,
                price          |-> ResolvePrice(p, p.presentations[k]) ]] ]

StartSession(selectedIds) ==
    LET Selected(p) == p.id \in selectedIds
        chosen == Filter(products, Selected)
    IN  [i \in 1..Len(chosen) |-> SessionEntry(chosen[i])]

startPosDay(selectedIds) ==
    IF selectedIds = {}
    THEN /\ last' = [op |-> "startPosDay", outcome |-> "rejected"]
         /\ UNCHANGED <<dataVars, stack, stored, idSeq>>
    ELSE /\ stack' = <<>>
         /\ posActiveProducts' = StartSession(selectedIds)
         /\ UNCHANGED <<products, presentations, salesHistory, expenses,
                        expenseCategories, idSeq>>
         /\ save
         /\ last' = [op |-> "startPosDay", outcome |-> "ok"]

(***************************************************************************)
(* Counter operations of the session.                                      *)
(***************************************************************************)
\* AppState.data.posActiveProducts.find(p => p.id === productId)
FindEntry(session, productId) ==
    LET Is(p) == p.id = productId IN FindIndex(session, Is)

\* product.presentationItems.find(pi => pi.presentationId === presentationId)
FindItem(entry, presentationId) ==
    LET Is(pi) == pi.presentationId = presentationId
    IN  FindIndex(entry.presentationItems, Is)

\* mutant: the guard lets a count of -1 through
CountAccepted_Mutant(newCount) == newCount >= -1

\* if (newCount >= 0)
CountAccepted(newCount) == newCount >= 0

SetCount(session, i, k, n) ==
    [session EXCEPT ![i].presentationItems[k].count = n]

\* product.presentationItems.forEach(pi => { pi.count = 0; })
ZeroCounts(session, i) ==
    [session EXCEPT ![i].presentationItems =
        [k \in 1..Len(@) |-> [@[k] EXCEPT !.count = 0]]]

\* mutant: the snapshot is taken after the count was changed
updatePosItemCount_Late(productId, presentationId, delta) ==
    LET i == FindEntry(posActiveProducts, productId) IN
    IF i = 0 THEN Untouched("updatePosItemCount", "notfound")
    ELSE
    LET k == FindItem(posActiveProducts[i], presentationId) IN
    IF k = 0 THEN Untouched("updatePosItemCount", "notfound")
    ELSE
    LET newCount == posActiveProducts[i].presentationItems[k].count + delta IN
    IF ~CountAccepted(newCount) THEN Untouched("updatePosItemCount", "rejected")
    ELSE /\ posActiveProducts' = SetCount(posActiveProducts, i, k, newCount)
         /\ stack' = UndoPush(stack, posActiveProducts')
         /\ UNCHANGED <<products, presentations, salesHistory, expenses,
                        expenseCategories, idSeq>>
         /\ save
         /\ last' = [op |-> "updatePosItemCount", outcome |-> "ok"]

updatePosItemCount(productId, presentationId, delta) ==
    LET i == FindEntry(posActiveProducts, productId) IN
    IF i = 0 THEN Untouched("updatePosItemCount", "notfound")
    ELSE
    LET k == FindItem(posActiveProducts[i], presentationId) IN
    IF k = 0 THEN Untouched("updatePosItemCount", "notfound")
    ELSE
    LET newCount == posActiveProducts[i].presentationItems[k].count + delta IN
    IF ~CountAccepted(newCount) THEN Untouched("updatePosItemCount", "rejected")
    ELSE /\ stack' = UndoPush(stack, posActiveProducts)
         /\ posActiveProducts' = SetCount(posActiveProducts, i, k, newCount)
         /\ UNCHANGED <<products, presentations, salesHistory, expenses,
                        expenseCategories, idSeq>>
         /\ save
         /\ last' = [op |-> "updatePosItemCount", outcome |-> "ok"]

\* UndoStack.pop() and the restore of the snapshot it returns
\* mutant: the restored session is not saved
undoPosAction_Mutant ==
    IF Len(stack) = 0 THEN Untouched("undoPosAction", "empty")
    ELSE /\ posActiveProducts' = stack[Len(stack)]
         /\ stack' = SubSeq(stack, 1, Len(stack) - 1)
         /\ UNCHANGED <<products, presentations, salesHistory, expenses,
                        expenseCategories, idSeq, stored>>
         /\ last' = [op |-> "undoPosAction", outcome |-> "ok"]

undoPosAction ==
    IF Len(stack) = 0 THEN Untouched("undoPosAction", "empty")
    ELSE /\ posActiveProducts' = stack[Len(stack)]
         /\ stack' = SubSeq(stack, 1, Len(stack) - 1)
         /\ UNCHANGED <<products, presentations, salesHistory, expenses,
                        expenseCategories, idSeq>>
         /\ save
         /\ last' = [op |-> "undoPosAction", outcome |-> "ok"]

\* product.presentationItems.some(pi => pi.count > 0)
HasAny(entry) ==
    \E k \in 1..Len(entry.presentationItems) : entry.presentationItems[k].count > 0

resetProductCounts(productId) ==
    LET i == FindEntry(posActiveProducts, productId) IN
    IF i = 0 THEN Untouched("resetProductCounts", "notfound")
    ELSE IF ~HasAny(posActiveProducts[i])
    THEN Untouched("resetProductCounts", "zero")
    ELSE /\ stack' = UndoPush(stack, posActiveProducts)
         /\ posActiveProducts' = ZeroCounts(posActiveProducts, i)
         /\ UNCHANGED <<products, presentations, salesHistory, expenses,
                        expenseCategories, idSeq>>
         /\ save
         /\ last' = [op |-> "resetProductCounts", outcome |-> "ok"]

\* mutant: a reset of a counter at zero is not skipped
NeedsReset_Mutant(count) == count >= 0

\* if (presItem && presItem.count > 0)
NeedsReset(count) == count > 0

resetPresentationCount(productId, presentationId) ==
    LET i == FindEntry(posActiveProducts, productId) IN
    IF i = 0 THEN Untouched("resetPresentationCount", "notfound")
    ELSE
    LET k == FindItem(posActiveProducts[i], presentationId) IN
    IF k = 0 THEN Untouched("resetPresentationCount", "notfound")
    ELSE IF ~NeedsReset(posActiveProducts[i].presentationItems[k].count)
    THEN Untouched("resetPresentationCount", "zero")
    ELSE /\ stack' = UndoPush(stack, posActiveProducts)
         /\ posActiveProducts' = SetCount(posActiveProducts, i, k, 0)
         /\ UNCHANGED <<products, presentations, salesHistory, expenses,
                        expenseCategories, idSeq>>
         /\ save
         /\ last' = [op |-> "resetPresentationCount", outcome |-> "ok"]

(***************************************************************************)
(* Actions.closePosDay.                                                    *)
(***************************************************************************)
\* presentation?.name || 'Desconocida'
PresentationName(entry, presentationId) ==
    LET Is(pr) == pr.id = presentationId
        k == FindIndex(entry.presentations, Is)
    IN  IF k = 0 \/ entry.presentations[k].name = ""
        THEN "Desconocida"
        ELSE entry.presentations[k].name

\* mutant: items that sold nothing get a line too
Sold_Mutant(presItem) == presItem.count >= 0

\* if (presItem.count > 0)
Sold(presItem) == presItem.count > 0

LineItem(entry, presItem) ==
    [ productId        |-> entry.id,
      name             |-> entry.name,
      presentationName |-> PresentationName(entry, presItem.presentationId),
      price            |-> presItem.price,
      count            |-> presItem.count,
      total            |-> presItem.price * presItem.count ]

RECURSIVE FoldItems_Mutant(_, _, _, _)
\* mutant: the close adds the price of a line, not price x count
FoldItems_Mutant(entry, k, totalAmount, items) ==
    IF k > Len(entry.presentationItems) THEN [totalAmount |-> totalAmount, items |-> items]
    ELSE LET presItem == entry.presentationItems[k] IN
         IF Sold(presItem)
         THEN FoldItems_Mutant(entry, k + 1,
                               totalAmount + presItem.price,
                               Append(items, LineItem(entry, presItem)))
         ELSE FoldItems_Mutant(entry, k + 1, totalAmount, items)

RECURSIVE FoldItems(_, _, _, _)
\* the inner forEach over product.presentationItems, from item k on
FoldItems(entry, k, totalAmount, items) ==
    IF k > Len(entry.presentationItems) THEN [totalAmount |-> totalAmount, items |-> items]
    ELSE LET presItem == entry.presentationItems[k] IN
         IF Sold(presItem)
         THEN FoldItems(entry, k + 1,
                        totalAmount + presItem.price * presItem.count,
                        Append(items, LineItem(entry, presItem)))
         ELSE FoldItems(entry, k + 1, totalAmount, items)

RECURSIVE FoldSession(_, _, _)
\* the outer forEach over posActiveProducts, from entry i on
FoldSession(session, i, acc) ==
    IF i > Len(session) THEN acc
    ELSE FoldSession(session, i + 1,
                     FoldItems(session[i], 1, acc.totalAmount, acc.items))

SaleRecord(session, id) ==
    LET acc == FoldSession(session, 1, [totalAmount |-> 0, items |-> <<>>])
    IN  [id |-> id, date |-> "now", totalAmount |-> acc.totalAmount, items |-> acc.items]

\* mutant: a day without sales cannot be closed
closePosDay_NeedsSales(confirmed) ==
    IF ~confirmed \/ SaleRecord(posActiveProducts, idSeq).items = <<>>
    THEN Untouched("closePosDay", "declined")
    ELSE /\ salesHistory' = Append(salesHistory, SaleRecord(posActiveProducts, idSeq))
         /\ idSeq' = idSeq + 1
         /\ posActiveProducts' = <<>>
         /\ stack' = <<>>
         /\ UNCHANGED <<products, presentations, expenses, expenseCategories>>
         /\ save
         /\ last' = [op |-> "closePosDay", outcome |-> "ok"]

\* mutant: the close forgets UndoStack.clear()
closePosDay_Mutant(confirmed) ==
    IF ~confirmed THEN Untouched("closePosDay", "declined")
    ELSE /\ salesHistory' = Append(salesHistory, SaleRecord(posActiveProducts, idSeq))
         /\ idSeq' = idSeq + 1
         /\ posActiveProducts' = <<>>
         /\ stack' = stack
         /\ UNCHANGED <<products, presentations, expenses, expenseCategories>>
         /\ save
         /\ last' = [op |-> "closePosDay", outcome |-> "ok"]

\* `confirmed` is the answer to whichever confirm() dialog is shown
closePosDay(confirmed) ==
    IF ~confirmed THEN Untouched("closePosDay", "declined")
    ELSE /\ salesHistory' = Append(salesHistory, SaleRecord(posActiveProducts, idSeq))
         /\ idSeq' = idSeq + 1
         /\ posActiveProducts' = <<>>
         /\ stack' = <<>>
         /\ UNCHANGED <<products, presentations, expenses, expenseCategories>>
         /\ save
         /\ last' = [op |-> "closePosDay", outcome |-> "ok"]

(***************************************************************************)
(* The state after a first run: Storage.load() with nothing stored.        *)
(***************************************************************************)
SeedCategories ==
    << [id |-> 1, name |-> "Mercancia"],
       [id |-> 2, name |-> "Sueldos"],
       [id |-> 3, name |-> "Servicios"] >>

SeedPresentations ==
    << [id |-> 1, name |-> "500ml", liters |-> 5, isProtected |-> TRUE, seeded |-> TRUE],
       [id |-> 2, name |-> "1L", liters |-> 10, isProtected |-> TRUE, seeded |-> TRUE] >>

\* the first id Utils.generateId() hands out after the three seeded categories
FirstFreeId == 4

(***************************************************************************)
(* Storage.load.  A registry entry is                                      *)
(*   [id, name, liters, isProtected, seeded]                               *)
(* where isProtected is FALSE when the property is absent, and seeded is   *)
(* history: TRUE for the entries the seeding code of Storage.load made     *)
(* (it is copied with the entry by every {...p}).                          *)
(***************************************************************************)
\* typeof p.id === 'number' ? p.id : 0; an id that is no number is NoId
NoId == -1

NumericId(id) == IF id = NoId THEN 0 ELSE id

RECURSIVE MaxId(_)
\* Math.max(...presentations.map(p => typeof p.id === 'number' ? p.id : 0))
MaxId(registry) ==
    IF Len(registry) = 1 THEN NumericId(registry[1].id)
    ELSE Max(NumericId(Head(registry).id), MaxId(Tail(registry)))

\* presentations.length ? Math.max(...) + 1 : 1
NewPresentationId(registry) ==
    IF Len(registry) = 0 THEN 1 ELSE MaxId(registry) + 1

\* presentations.find(p => p.name === name || p.liters === liters)
HasBase(registry, name, liters) ==
    \E k \in 1..Len(registry) :
        registry[k].name = name \/ registry[k].liters = liters

\* mutant: nothing is seeded again
Ensure_Mutant(registry, name, liters) == registry

\* ensure(name, liters)
Ensure(registry, name, liters) ==
    IF HasBase(registry, name, liters) THEN registry
    ELSE Append(registry,
                [ id |-> NewPresentationId(registry), name |-> name, liters |-> liters,
                  isProtected |-> TRUE, seeded |-> TRUE ])

IsBase(p) ==
    \/ (p.name = "500ml" /\ p.liters = 5)
    \/ (p.name = "1L" /\ p.liters = 10)

\* presentations.forEach(p => { if (base) p.isProtected = true; })
MarkBase(registry) ==
    [k \in 1..Len(registry) |->
        IF IsBase(registry[k]) THEN [registry[k] EXCEPT !.isProtected = TRUE]
        ELSE registry[k]]

\* the registry Storage.load leaves, given the one it read
LoadedRegistry(registry) ==
    MarkBase(Ensure(Ensure(registry, "500ml", 5), "1L", 10))

EmptyData ==
    [ products          |-> <<>>,
      salesHistory      |-> <<>>,
      expenses          |-> <<>>,
      expenseCategories |-> <<>>,
      posActiveProducts |-> <<>>,
      presentations     |-> <<>> ]

\* the categories of a first run, with ids from Utils.generateId()
FirstRunCategories(id) ==
    << [id |-> id, name |-> "Mercancia"],
       [id |-> id + 1, name |-> "Sueldos"],
       [id |-> id + 2, name |-> "Servicios"] >>

\* Storage.load(): AppState.data after it, given AppState.data before it
\* (`data`), the stored item and the next free id
Loaded(data, item, id) ==
    LET read == IF ~IsNull(item) THEN Val(item)
                ELSE [data EXCEPT !.expenseCategories = FirstRunCategories(id),
                                  !.presentations = SeedPresentations]
    IN  [read EXCEPT !.presentations = LoadedRegistry(@)]

SetData(data) ==
    /\ products' = data.products
    /\ salesHistory' = data.salesHistory
    /\ expenses' = data.expenses
    /\ expenseCategories' = data.expenseCategories
    /\ posActiveProducts' = data.posActiveProducts
    /\ presentations' = data.presentations

\* the page is opened again: a fresh script state, then Router.init()
Reload ==
    /\ SetData(Loaded(EmptyData, stored, idSeq))
    /\ idSeq' = IF IsNull(stored) THEN idSeq + 3 ELSE idSeq
    /\ stack' = <<>>
    /\ save
    /\ last' = [op |-> "load", outcome |-> "ok"]

(***************************************************************************)
(* Presentations (Actions.addPresentation, deletePresentation,             *)
(* saveEditedPresentation).                                                *)
(***************************************************************************)
addPresentation(name, liters) ==
    /\ presentations' =
          Append(presentations,
                 [ id |-> NewPresentationId(presentations), name |-> name,
                   liters |-> liters, isProtected |-> FALSE, seeded |-> FALSE ])
    /\ UNCHANGED <<products, posActiveProducts, salesHistory, expenses,
                   expenseCategories, stack, idSeq>>
    /\ save
    /\ last' = [op |-> "addPresentation", outcome |-> "ok"]

\* mutant: the protection flag is not looked at
DeleteRefused_Mutant(registry, id) == FALSE

\* const pres = presentations.find(p => p.id === id); pres && pres.isProtected
DeleteRefused(registry, id) ==
    LET Is(p) == p.id = id
        k == FindIndex(registry, Is)
    IN  k # 0 /\ registry[k].isProtected

\* mutant: the products keep their references
WithoutPresentation_Mutant(prod, id) == prod

\* (prod.presentations || []).filter(pr => pr.id !== id)
WithoutPresentation(prod, id) ==
    LET Keep(pr) == pr.id # id
    IN  [prod EXCEPT !.presentations = Filter(@, Keep)]

deletePresentation(id, confirmed) ==
    IF DeleteRefused(presentations, id)
    THEN Untouched("deletePresentation", "protected")
    ELSE IF ~confirmed THEN Untouched("deletePresentation", "declined")
    ELSE /\ presentations' = LET Keep(p) == p.id # id IN Filter(presentations, Keep)
         /\ products' = [i \in 1..Len(products) |-> WithoutPresentation(products[i], id)]
         /\ UNCHANGED <<posActiveProducts, salesHistory, expenses,
                        expenseCategories, stack, idSeq>>
         /\ save
         /\ last' = [op |-> "deletePresentation", outcome |-> "ok"]

\* presentations.map(p => p.id === id ? { ...p, name, liters } : p)
EditedIn(list, id, name, liters) ==
    [k \in 1..Len(list) |->
        IF list[k].id = id THEN [list[k] EXCEPT !.name = name, !.liters = liters]
        ELSE list[k]]

\* mutant: the edit is carried into the entries of the running session, and
\* the prices of the edited presentation are resolved again
saveEditedPresentation_Mutant(id, name, liters) ==
    /\ presentations' = EditedIn(presentations, id, name, liters)
    /\ products' = [i \in 1..Len(products) |->
                      [products[i] EXCEPT !.presentations = EditedIn(@, id, name, liters)]]
    /\ posActiveProducts' =
          [i \in 1..Len(posActiveProducts) |->
              SessionEntry([posActiveProducts[i] EXCEPT
                              !.presentations = EditedIn(@, id, name, liters)])]
    /\ UNCHANGED <<salesHistory, expenses, expenseCategories, stack, idSeq>>
    /\ save
    /\ last' = [op |-> "saveEditedPresentation", outcome |-> "ok"]

\* mutant: the new name is also written into the lines of the ledger that
\* carry the old one
saveEditedPresentation_Ledger(id, name, liters) ==
    LET Is(p) == p.id = id
        n == FindIndex(presentations, Is)
        Renamed(line) == IF n # 0 /\ line.presentationName = presentations[n].name
                         THEN [line EXCEPT !.presentationName = name] ELSE line
    IN  /\ presentations' = EditedIn(presentations, id, name, liters)
        /\ products' = [i \in 1..Len(products) |->
                          [products[i] EXCEPT !.presentations = EditedIn(@, id, name, liters)]]
        /\ salesHistory' =
              [r \in 1..Len(salesHistory) |->
                  [salesHistory[r] EXCEPT
                     !.items = [m \in 1..Len(@) |-> Renamed(@[m])]]]
        /\ UNCHANGED <<posActiveProducts, expenses, expenseCategories, stack, idSeq>>
        /\ save
        /\ last' = [op |-> "saveEditedPresentation", outcome |-> "ok"]

saveEditedPresentation(id, name, liters) ==
    /\ presentations' = EditedIn(presentations, id, name, liters)
    /\ products' = [i \in 1..Len(products) |->
                      [products[i] EXCEPT !.presentations = EditedIn(@, id, name, liters)]]
    /\ UNCHANGED <<posActiveProducts, salesHistory, expenses,
                   expenseCategories, stack, idSeq>>
    /\ save
    /\ last' = [op |-> "saveEditedPresentation", outcome |-> "ok"]

(***************************************************************************)
(* Products (Actions.saveProduct, deleteProduct).                          *)
(***************************************************************************)
IsSpace(c) == c = " "

RECURSIVE TrimStart(_)
TrimStart(s) ==
    IF Len(s) > 0 /\ IsSpace(Head(s)) THEN TrimStart(Tail(s)) ELSE s

RECURSIVE TrimEnd(_)
TrimEnd(s) ==
    IF Len(s) > 0 /\ IsSpace(s[Len(s)]) THEN TrimEnd(SubSeq(s, 1, Len(s) - 1)) ELSE s

\* String.prototype.trim
Trim(s) == TrimEnd(TrimStart(s))

LowerChar(c) ==
    CASE c = "A" -> "a"
      [] c = "B" -> "b"
      [] c = "G" -> "g"
      [] c = "J" -> "j"
      [] c = "O" -> "o"
      [] c = "U" -> "u"
      [] OTHER -> c

\* String.prototype.toLowerCase
ToLowerCase(s) == [k \in 1..Len(s) |-> LowerChar(s[k])]

\* mutant: the comparison is case-sensitive
Normalized_Mutant(name) == Trim(name)

\* (p.name || '').trim().toLowerCase()
Normalized(name) == ToLowerCase(Trim(name))

\* products.find(p => normalized(p.name) === normalized && p.id !== id);
\* `id` is <<>> for a new product (the form passes '')
HasDuplicate(catalog, name, id) ==
    \E i \in 1..Len(catalog) :
        /\ Normalized(catalog[i].name) = ToLowerCase(name)
        /\ Some(catalog[i].id) # id

\* an alert and an early return of saveProduct
Turned(outcome, formName) ==
    /\ last' = [op |-> "saveProduct", outcome |-> outcome, name |-> formName]
    /\ UNCHANGED <<dataVars, stack, stored, idSeq>>

\* mutant: a product may be saved with nothing ticked
NothingSelected_Mutant(selected) == FALSE

\* presentations.length === 0
NothingSelected(selected) == Len(selected) = 0

\* `id` is <<>> to create, <<id>> to edit; `formName` is the text typed and
\* `selected` the presentation references of the hidden field
saveProduct(id, formName, pricePerLiter, selected) ==
    LET name == Trim(formName) IN
    IF Len(name) = 0 THEN Turned("noname", formName)
    ELSE IF HasDuplicate(products, name, id) THEN Turned("duplicate", formName)
    ELSE IF NothingSelected(selected) THEN Turned("nopresentation", formName)
    ELSE /\ IF ~IsNull(id)
            THEN LET Is(p) == p.id = Val(id)
                     index == FindIndex(products, Is)
                 IN  /\ products' =
                          IF index # 0
                          THEN [products EXCEPT ![index] =
                                   [@ EXCEPT !.name = name,
                                             !.pricePerLiter = pricePerLiter,
                                             !.presentations = selected]]
                          ELSE products
                     /\ idSeq' = idSeq
            ELSE /\ products' =
                      Append(products,
                             [ id |-> idSeq, name |-> name,
                               pricePerLiter |-> pricePerLiter,
                               presentations |-> selected ])
                 /\ idSeq' = idSeq + 1
         /\ UNCHANGED <<presentations, posActiveProducts, salesHistory, expenses,
                        expenseCategories, stack>>
         /\ save
         /\ last' = [op |-> "saveProduct", outcome |-> "ok", name |-> formName]

deleteProduct(id, confirmed) ==
    IF ~confirmed THEN Untouched("deleteProduct", "declined")
    ELSE /\ products' = LET Keep(p) == p.id # id IN Filter(products, Keep)
         /\ UNCHANGED <<presentations, posActiveProducts, salesHistory, expenses,
                        expenseCategories, stack, idSeq>>
         /\ save
         /\ last' = [op |-> "deleteProduct", outcome |-> "ok"]

(***************************************************************************)
(* JSON documents (the text of a backup file, parsed).                     *)
(*                                                                         *)
(* A scalar is [ty, v]: the number v, the string that spells the number v, *)
(* a string that spells no number ("text"), or an absent/null property.    *)
(* Ids the program made are integers here and strings in the program, so   *)
(* String(id) of the number 7 and of the string "7" are both 7.            *)
(* An array element that is no object (null, a number, a string) is <<>>;  *)
(* an object is <<record>>.  A field of the document is [t, a]: its type   *)
(* and, for an array, its elements.  The id of a presentation, which the   *)
(* sanitizer passes on as it is, is an integer, or NoId when it is no      *)
(* number; a name that is absent or empty is <<>>.                         *)
(***************************************************************************)
Num(v) == [ty |-> "number", v |-> v]

Str(v) == [ty |-> "string", v |-> v]

Text == [ty |-> "text", v |-> 0]

Absent == [ty |-> "absent", v |-> 0]

\* !x  (the empty string is not among the scalars)
Falsy(x) == x.ty = "absent" \/ (x.ty = "number" /\ x.v = 0)

\* parseFloat(x) || 0
ParseFloatOrZero(x) == IF x.ty \in {"number", "string"} THEN x.v ELSE 0

ArrayOf(a) == [t |-> "array", a |-> a]

NotArray(t) == [t |-> t, a |-> <<>>]

Undefined == NotArray("absent")

\* data.<field>: an array document has none of the fields
FieldOf(d, field) == IF d.top = "array" THEN Undefined ELSE d[field]

\* '"<field>" no es un array, se usara array vacio.'
NotArrayWarning(field) == [field |-> field, msg |-> "no es un array, se usara array vacio."]

\* mutant: a field that is no array goes unreported
FieldWarnings_Mutant(f, field) == <<>>

\* else if (data.<field> !== undefined) errors.push(...)
FieldWarnings(f, field) ==
    IF f.t \notin {"array", "absent"} THEN <<NotArrayWarning(field)>> ELSE <<>>

\* the id Utils.generateId() gives the k-th element, when the elements
\* flagged in `needs` before it took one each
FreshId(needs, k, id) == id + Cardinality({j \in 1..(k - 1) : needs[j]})

GeneratedIds(needs) == Cardinality({j \in 1..Len(needs) : needs[j]})

\* mutant: a product without id is kept
ProductKept_Mutant(e) == ~IsNull(e) /\ ~IsNull(Val(e).name)

\* products: filter, then map
ProductKept(e) == ~IsNull(e) /\ ~Falsy(Val(e).id) /\ ~IsNull(Val(e).name)

ProductOmitted(e) == ~IsNull(e) /\ ~ProductKept(e)

SanitizedProduct(e) ==
    LET p == Val(e) IN
    [ id            |-> p.id.v,
      name          |-> Val(p.name),
      pricePerLiter |-> IF ParseFloatOrZero(p.pricePerLiter) # 0
                        THEN ParseFloatOrZero(p.pricePerLiter)
                        ELSE ParseFloatOrZero(p.price),
      presentations |-> IF IsNull(p.presentations) THEN <<>> ELSE Val(p.presentations) ]

SanitizedProducts(f) ==
    LET kept == Filter(f.a, ProductKept)
    IN  [k \in 1..Len(kept) |-> SanitizedProduct(kept[k])]

ProductWarnings(f) ==
    LET omitted == Filter(f.a, ProductOmitted)
    IN  [k \in 1..Len(omitted) |->
            [field |-> "products", msg |-> "Producto sin id o nombre omitido."]]

\* salesHistory
SaleKept(e) == ~IsNull(e) /\ ~IsNull(Val(e).date)

SaleOmitted(e) == ~IsNull(e) /\ ~SaleKept(e)

SanitizedSales(f, id) ==
    LET kept == Filter(f.a, SaleKept)
        needs == [k \in 1..Len(kept) |-> Falsy(Val(kept[k]).id)]
    IN  [k \in 1..Len(kept) |->
            LET s == Val(kept[k]) IN
            [ id          |-> IF needs[k] THEN FreshId(needs, k, id) ELSE s.id.v,
              date        |-> Val(s.date),
              totalAmount |-> ParseFloatOrZero(s.totalAmount),
              items       |-> IF IsNull(s.items) THEN <<>> ELSE Val(s.items) ]]

SaleIds(f) ==
    LET kept == Filter(f.a, SaleKept)
    IN  GeneratedIds([k \in 1..Len(kept) |-> Falsy(Val(kept[k]).id)])

SaleWarnings(f) ==
    LET omitted == Filter(f.a, SaleOmitted)
    IN  [k \in 1..Len(omitted) |->
            [field |-> "salesHistory", msg |-> "Venta sin fecha omitida."]]

\* expenses
ExpenseKept(e) == ~IsNull(e)

SanitizedExpenses(f, id) ==
    LET kept == Filter(f.a, ExpenseKept)
        needs == [k \in 1..Len(kept) |-> Falsy(Val(kept[k]).id)]
    IN  [k \in 1..Len(kept) |->
            LET e == Val(kept[k]) IN
            [ id     |-> IF needs[k] THEN FreshId(needs, k, id) ELSE e.id.v,
              amount |-> Num(ParseFloatOrZero(e.amount)),
              date   |-> IF IsNull(e.date) THEN "now" ELSE Val(e.date) ]]

ExpenseIds(f) ==
    LET kept == Filter(f.a, ExpenseKept)
    IN  GeneratedIds([k \in 1..Len(kept) |-> Falsy(Val(kept[k]).id)])

\* expenseCategories
CategoryKept(e) == ~IsNull(e) /\ ~IsNull(Val(e).name)

SanitizedCategories(f, id) ==
    LET kept == Filter(f.a, CategoryKept)
        needs == [k \in 1..Len(kept) |-> Val(kept[k]).id.ty = "absent"]
    IN  [k \in 1..Len(kept) |->
            LET c == Val(kept[k]) IN
            [ id   |-> IF needs[k] THEN FreshId(needs, k, id) ELSE c.id.v,
              name |-> Val(c.name) ]]

CategoryIds(f) ==
    LET kept == Filter(f.a, CategoryKept)
    IN  GeneratedIds([k \in 1..Len(kept) |-> Val(kept[k]).id.ty = "absent"])

\* presentations
PresentationKept(e) ==
    ~IsNull(e) /\ ~IsNull(Val(e).name) /\ Val(e).liters.ty # "absent"

SanitizedPresentations(f) ==
    LET kept == Filter(f.a, PresentationKept)
    IN  [k \in 1..Len(kept) |->
            LET p == Val(kept[k]) IN
            [ id          |-> p.id,
              name        |-> Val(p.name),
              liters      |-> ParseFloatOrZero(p.liters),
              isProtected |-> p.isProtected,
              seeded      |-> p.seeded ]]

\* what an array field contributes; anything else contributes nothing
Elements(f) == IF f.t = "array" THEN f ELSE ArrayOf(<<>>)

\* Storage.validateImportData(data), when Utils.generateId() is at `id`;
\* `used` counts the ids it generated
validateImportData(d, id) ==
    IF d.top \notin {"object", "array"}
    THEN [ valid |-> FALSE,
           errors |-> << [field |-> "", msg |-> "El archivo no contiene un objeto JSON valido."] >>,
           sanitized |-> Null, used |-> 0 ]
    ELSE LET fp == FieldOf(d, "products")
             fs == FieldOf(d, "salesHistory")
             fe == FieldOf(d, "expenses")
             fc == FieldOf(d, "expenseCategories")
             fr == FieldOf(d, "presentations")
             idE == id + SaleIds(Elements(fs))
             idC == idE + ExpenseIds(Elements(fe))
         IN  [ valid |-> TRUE,
               errors |->
                    ProductWarnings(Elements(fp)) \o FieldWarnings(fp, "products")
                 \o SaleWarnings(Elements(fs)) \o FieldWarnings(fs, "salesHistory")
                 \o FieldWarnings(fe, "expenses")
                 \o FieldWarnings(fc, "expenseCategories")
                 \o FieldWarnings(fr, "presentations"),
               sanitized |->
                 Some([ products          |-> SanitizedProducts(Elements(fp)),
                        salesHistory      |-> SanitizedSales(Elements(fs), id),
                        expenses          |-> SanitizedExpenses(Elements(fe), idE),
                        expenseCategories |-> SanitizedCategories(Elements(fc), idC),
                        posActiveProducts |-> <<>>,
                        presentations     |-> SanitizedPresentations(Elements(fr)) ]),
               used |-> (idC + CategoryIds(Elements(fc))) - id ]

\* reader.onload of Storage.importData; a text JSON.parse rejects is "garbage"
importData(d) ==
    IF d.top = "garbage"
    THEN /\ last' = [op |-> "importData", outcome |-> "error", errors |-> <<>>]
         /\ UNCHANGED <<dataVars, stack, stored, idSeq>>
    ELSE LET r == validateImportData(d, idSeq) IN
         IF ~r.valid
         THEN /\ last' = [op |-> "importData", outcome |-> "invalid", errors |-> r.errors]
              /\ UNCHANGED <<dataVars, stack, stored, idSeq>>
         ELSE /\ SetData(Loaded(Val(r.sanitized), r.sanitized, idSeq + r.used))
              /\ idSeq' = idSeq + r.used
              /\ UNCHANGED stack
              /\ save
              /\ last' = [op |-> "importData",
                          outcome |-> IF Len(r.errors) > 0 THEN "warned" ELSE "ok",
                          errors |-> r.errors]

(***************************************************************************)
(* Storage.exportData: JSON.stringify(AppState.data), read back as a       *)
(* document.                                                               *)
(***************************************************************************)
ProductJson(p) ==
    Some([ id |-> Str(p.id), name |-> Some(p.name), pricePerLiter |-> Num(p.pricePerLiter),
           price |-> Absent, presentations |-> Some(p.presentations) ])

SaleJson(s) ==
    Some([ id |-> Str(s.id), date |-> Some(s.date), totalAmount |-> Num(s.totalAmount),
           items |-> Some(s.items) ])

ExpenseJson(e) ==
    Some([ id |-> Str(e.id), amount |-> e.amount, date |-> Some(e.date) ])

CategoryJson(c) == Some([ id |-> Str(c.id), name |-> Some(c.name) ])

PresentationJson(p) ==
    Some([ id |-> p.id, name |-> Some(p.name), liters |-> Num(p.liters),
           isProtected |-> p.isProtected, seeded |-> p.seeded ])

Exported(data) ==
    [ top               |-> "object",
      products          |-> ArrayOf([k \in 1..Len(data.products) |-> ProductJson(data.products[k])]),
      salesHistory      |-> ArrayOf([k \in 1..Len(data.salesHistory) |-> SaleJson(data.salesHistory[k])]),
      expenses          |-> ArrayOf([k \in 1..Len(data.expenses) |-> ExpenseJson(data.expenses[k])]),
      expenseCategories |-> ArrayOf([k \in 1..Len(data.expenseCategories) |->
                                        CategoryJson(data.expenseCategories[k])]),
      presentations     |-> ArrayOf([k \in 1..Len(data.presentations) |->
                                        PresentationJson(data.presentations[k])]) ]

\* the backup is downloaded; the program's state stays
exportData ==
    /\ doc' = Some(Exported(Data))
    /\ last' = [op |-> "exportData", outcome |-> "ok"]
    /\ UNCHANGED <<dataVars, stack, stored, idSeq>>

\* Actions.saveExpense: the amount is the text of the form field
saveExpense(amount) ==
    /\ expenses' = Append(expenses, [id |-> idSeq, amount |-> Str(amount), date |-> "now"])
    /\ idSeq' = idSeq + 1
    /\ UNCHANGED <<products, presentations, posActiveProducts, salesHistory,
                   expenseCategories, stack>>
    /\ save
    /\ last' = [op |-> "saveExpense", outcome |-> "ok"]

(***************************************************************************)
(* Expenses and their categories; the deletion of all data.                *)
(***************************************************************************)
addCategory(name) ==
    /\ expenseCategories' = Append(expenseCategories, [id |-> idSeq, name |-> name])
    /\ idSeq' = idSeq + 1
    /\ UNCHANGED <<products, presentations, posActiveProducts, salesHistory,
                   expenses, stack>>
    /\ save
    /\ last' = [op |-> "addCategory", outcome |-> "ok"]

deleteCategory(id, confirmed) ==
    IF ~confirmed THEN Untouched("deleteCategory", "declined")
    ELSE /\ expenseCategories' = LET Keep(c) == c.id # id IN Filter(expenseCategories, Keep)
         /\ UNCHANGED <<products, presentations, posActiveProducts, salesHistory,
                        expenses, stack, idSeq>>
         /\ save
         /\ last' = [op |-> "deleteCategory", outcome |-> "ok"]

deleteExpense(id, confirmed) ==
    IF ~confirmed THEN Untouched("deleteExpense", "declined")
    ELSE /\ expenses' = LET Keep(e) == e.id # id IN Filter(expenses, Keep)
         /\ UNCHANGED <<products, presentations, posActiveProducts, salesHistory,
                        expenseCategories, stack, idSeq>>
         /\ save
         /\ last' = [op |-> "deleteExpense", outcome |-> "ok"]

\* `word` tells whether "Ornitorinco" was typed.  The item is removed, the
\* empty document saved and loaded: load finds an item, so it seeds the base
\* presentations but no category.
deleteAllData(word, confirmed) ==
    IF ~word THEN Untouched("deleteAllData", "noword")
    ELSE IF ~confirmed THEN Untouched("deleteAllData", "declined")
    ELSE /\ SetData(Loaded(EmptyData, Some(EmptyData), idSeq))
         /\ stack' = <<>>
         /\ UNCHANGED idSeq
         /\ save
         /\ last' = [op |-> "deleteAllData", outcome |-> "ok"]

(***************************************************************************)
(* Catalogs saveProduct can have built on the seeded registry.             *)
(***************************************************************************)
NameAgua == <<"A", "g", "u", "a">>

NameJugo == <<"J", "u", "g", "o">>

\* "Agua": 2.00 per litre, 500ml at the computed 1.00, 1L at a fixed 1.80
ProductAgua ==
    [ id |-> 4, name |-> NameAgua, pricePerLiter |-> 200,
      presentations |->
        << [id |-> 1, name |-> "500ml", liters |-> 5, price |-> Null],
           [id |-> 2, name |-> "1L", liters |-> 10, price |-> Some(1800)] >> ]

\* "Jugo": 3.00 per litre, 1L at the computed 3.00
ProductJugo ==
    [ id |-> 5, name |-> NameJugo, pricePerLiter |-> 300,
      presentations |->
        << [id |-> 2, name |-> "1L", liters |-> 10, price |-> Null] >> ]

\* a day closed earlier: one 1L of Jugo
OldSale ==
    [ id |-> 6, date |-> "now", totalAmount |-> 3000,
      items |-> << [ productId |-> 5, name |-> NameJugo, presentationName |-> "1L",
                     price |-> 3000, count |-> 1, total |-> 3000 ] >> ]

\* the ids 4, 5 and 6 are taken by the two products and the old sale
NextFreeId == 7

NoLast == [op |-> "init", outcome |-> "ok"]

InitCommon ==
    /\ presentations = SeedPresentations
    /\ expenses = <<>>
    /\ expenseCategories = SeedCategories
    /\ posActiveProducts = <<>>
    /\ stack = <<>>
    /\ last = NoLast
    /\ s0 = <<>>
    /\ nOps = 0
    /\ nUndo = 0
    /\ doc = <<>>
    /\ steps = 0
    /\ assigned = {1, 2}
    /\ worker = [state |-> "parsed", cache |-> {}, fetched |-> {}, failed |-> {}]
    /\ modal = [overlays |-> <<>>, timers |-> <<>>, created |-> 0, closing |-> FALSE]

(***************************************************************************)
(* Spec: the point of sale on a catalog.                                   *)
(***************************************************************************)
Init ==
    /\ InitCommon
    /\ products = <<ProductAgua, ProductJugo>>
    /\ salesHistory \in { <<>>, <<OldSale>> }
    /\ idSeq = NextFreeId
    /\ stored = Some(Data)

\* ids a click can carry: those of the catalog; product 5 has no presentation
\* 1, and an entry that was not selected is not in the session
ProductIdArgs == {4, 5}

PresentationIdArgs == {1, 2}

Deltas == {-1, 1, 2, 3}

Within ==
    /\ Len(stack) <= MaxDepth
    /\ \A i \in 1..Len(posActiveProducts) :
         \A k \in 1..Len(posActiveProducts[i].presentationItems) :
            posActiveProducts[i].presentationItems[k].count <= MaxCount

\* Spec follows one trading day: no day has been closed in this run yet
DayOpen == idSeq = NextFreeId

PosStart ==
    /\ DayOpen
    /\ \E selectedIds \in SUBSET {4, 5} : startPosDay(selectedIds)
    /\ UNCHANGED <<hist, doc>>

PosUpdate ==
    /\ \E productId \in ProductIdArgs, presentationId \in PresentationIdArgs, delta \in Deltas :
          updatePosItemCount(productId, presentationId, delta)
    /\ Within'
    /\ UNCHANGED <<hist, doc>>

PosUndo ==
    /\ undoPosAction
    /\ UNCHANGED <<hist, doc>>

PosResetProduct ==
    /\ \E productId \in ProductIdArgs : resetProductCounts(productId)
    /\ Within'
    /\ UNCHANGED <<hist, doc>>

PosResetPresentation ==
    /\ \E productId \in ProductIdArgs, presentationId \in PresentationIdArgs :
          resetPresentationCount(productId, presentationId)
    /\ Within'
    /\ UNCHANGED <<hist, doc>>

PosClose ==
    /\ idSeq < NextFreeId + MaxCloses
    /\ \E confirmed \in BOOLEAN : closePosDay(confirmed)
    /\ Within'
    /\ UNCHANGED <<hist, doc>>

Next ==
    \/ PosStart
    \/ PosUpdate
    \/ PosUndo
    \/ PosResetProduct
    \/ PosResetPresentation
    \/ PosClose

Spec == Init /\ [][Next]_vars

(***************************************************************************)
(* Notions the claims are stated with, defined without the handlers.       *)
(***************************************************************************)
\* the positions <<entry, item>> of a session
ItemPositions(session) ==
    UNION { { <<i, k>> : k \in 1..Len(session[i].presentationItems) } :
            i \in 1..Len(session) }

ItemAt(session, pos) == session[pos[1]].presentationItems[pos[2]]

\* session order: entries first, then the items of an entry
Before(a, b) == a[1] < b[1] \/ (a[1] = b[1] /\ a[2] < b[2])

RECURSIVE SumOfPositions(_, _)
\* the sum of price x count over a set of positions
SumOfPositions(session, S) ==
    IF S = {} THEN 0
    ELSE LET pos == CHOOSE x \in S : TRUE
         IN  ItemAt(session, pos).price * ItemAt(session, pos).count
             + SumOfPositions(session, S \ {pos})

\* the positions whose count is positive
SoldPositions(session) ==
    { pos \in ItemPositions(session) : ItemAt(session, pos).count > 0 }

\* the place of a sold position among the sold positions, in session order
Rank(session, pos) ==
    Cardinality({ q \in SoldPositions(session) : Before(q, pos) }) + 1

RECURSIVE SumOfTotals(_)
SumOfTotals(items) ==
    IF Len(items) = 0 THEN 0 ELSE Head(items).total + SumOfTotals(Tail(items))

\* `items` are the line items of the sold positions of `session`, in order
IsFoldOf(session, items) ==
    /\ Len(items) = Cardinality(SoldPositions(session))
    /\ \A pos \in SoldPositions(session) :
          LET entry == session[pos[1]]
              presItem == ItemAt(session, pos)
              line == items[Rank(session, pos)]
          IN  /\ line.productId = entry.id
              /\ line.name = entry.name
              /\ line.presentationName = entry.presentations[pos[2]].name
              /\ line.price = presItem.price
              /\ line.count = presItem.count
              /\ line.total = presItem.price * presItem.count

\* the call updatePosItemCount(productId, presentationId, delta) finds its
\* item and would take its count below zero
GoesNegative(productId, presentationId, delta) ==
    \E pos \in ItemPositions(posActiveProducts) :
        /\ posActiveProducts[pos[1]].id = productId
        /\ ItemAt(posActiveProducts, pos).presentationId = presentationId
        /\ ItemAt(posActiveProducts, pos).count + delta < 0

LastWas(op, outcome) == last.op = op /\ last.outcome = outcome

(***************************************************************************)
(* SpecUndo: one session on one counter, long enough to fill the undo log. *)
(* While the log holds fewer than MaxDepth snapshots and the counter is at *)
(* most MaxCount every counter operation is tried; beyond that only the +  *)
(* button is pressed, up to MaxDeepCount.                                  *)
(*                                                                         *)
(* History: s0 is the session startPosDay created, nOps the successful     *)
(* counter operations since, nUndo the undoPosAction calls after them      *)
(* (counted up to nOps + 1).  An operation after an undo leaves the        *)
(* pattern "N operations, then undos": nOps = -1 until the next start.     *)
(***************************************************************************)
InitUndo ==
    /\ InitCommon
    /\ products = <<ProductAgua, ProductJugo>>
    /\ salesHistory = <<>>
    /\ idSeq = NextFreeId
    /\ stored = Some(Data)

HistStart ==
    /\ s0' = posActiveProducts'
    /\ nOps' = 0
    /\ nUndo' = 0
    /\ UNCHANGED <<steps, assigned, aside>>

HistOperation ==
    IF last'.outcome = "ok"
    THEN /\ nOps' = IF nOps >= 0 /\ nUndo = 0 THEN nOps + 1 ELSE -1
         /\ UNCHANGED <<s0, nUndo, steps, assigned, aside>>
    ELSE UNCHANGED hist

HistUndo ==
    /\ nUndo' = IF nOps >= 0 /\ nUndo <= nOps THEN nUndo + 1 ELSE nUndo
    /\ UNCHANGED <<s0, nOps, steps, assigned, aside>>

DeepWithin ==
    \A pos \in ItemPositions(posActiveProducts) :
        ItemAt(posActiveProducts, pos).count <= MaxDeepCount

UndoStart ==
    /\ startPosDay({5})
    /\ HistStart
    /\ UNCHANGED doc

\* the log is short and every counter is small: any operation is tried
Varied == Len(stack) < MaxDepth /\ Within

\* the deltas the - and + buttons of the POS view pass
Buttons == {-1, 1}

UndoUpdate ==
    /\ \E delta \in Buttons :
          /\ updatePosItemCount(5, 2, delta)
          /\ (Varied /\ Within') \/ delta = 1
    /\ DeepWithin'
    /\ HistOperation
    /\ UNCHANGED doc

UndoResetProduct ==
    /\ Varied
    /\ resetProductCounts(5)
    /\ HistOperation
    /\ UNCHANGED doc

UndoResetPresentation ==
    /\ Varied
    /\ resetPresentationCount(5, 2)
    /\ HistOperation
    /\ UNCHANGED doc

UndoUndo ==
    /\ undoPosAction
    /\ HistUndo
    /\ UNCHANGED doc

NextUndo ==
    \/ UndoStart
    \/ UndoUpdate
    \/ UndoResetProduct
    \/ UndoResetPresentation
    \/ UndoUndo

SpecUndo == InitUndo /\ [][NextUndo]_vars

(***************************************************************************)
(* SpecCatalog: the product form (create, edit) and product deletion.      *)
(* The catalog starts empty, as saveProduct built it, or with a name that  *)
(* still carries a trailing blank, as validateImportData leaves the names  *)
(* of an imported document (String(p.name), not trimmed).                  *)
(***************************************************************************)
NameAguaSpaced == <<"a", "g", "u", "a", " ">>

ProductAguaSpaced == [ProductAgua EXCEPT !.name = NameAguaSpaced]

StartCatalogs ==
    { <<>>, <<ProductAgua, ProductJugo>>, <<ProductAguaSpaced, ProductJugo>> }

InitCatalog ==
    /\ InitCommon
    /\ products \in StartCatalogs
    /\ salesHistory = <<>>
    /\ idSeq = NextFreeId
    /\ stored = Some(Data)

\* texts typed into the name field
FormNames ==
    { NameAgua, NameAguaSpaced, <<" ", "J", "U", "G", "O">>, <<"U", "v", "a">>,
      <<" ", " ">>, <<>> }

\* values of the hidden presentations field: nothing ticked, or 1L ticked
FormSelections == { <<>>, << [id |-> 2, name |-> "1L", liters |-> 10, price |-> Null] >> }

FormPrice == 250

CatalogCreate ==
    /\ idSeq < NextFreeId + MaxCreates
    /\ \E name \in FormNames, selected \in FormSelections :
          saveProduct(Null, name, FormPrice, selected)
    /\ UNCHANGED <<hist, doc>>

\* the edit form is opened from the card of a product of the catalog
CatalogEdit ==
    /\ \E i \in 1..Len(products), name \in FormNames \cup {products[i].name : i \in 1..Len(products)},
          selected \in FormSelections :
          saveProduct(Some(products[i].id), name, FormPrice, selected)
    /\ UNCHANGED <<hist, doc>>

CatalogDelete ==
    /\ \E i \in 1..Len(products), confirmed \in BOOLEAN :
          deleteProduct(products[i].id, confirmed)
    /\ UNCHANGED <<hist, doc>>

NextCatalog ==
    \/ CatalogCreate
    \/ CatalogEdit
    \/ CatalogDelete

SpecCatalog == InitCatalog /\ [][NextCatalog]_vars


(***************************************************************************)
(* SpecImport: backup files handed to Storage.importData.                  *)
(***************************************************************************)
\* records as the sanitizer leaves them
FileProduct ==
    Some([ id |-> Str(21), name |-> Some(NameAgua), pricePerLiter |-> Num(200),
           price |-> Absent, presentations |-> Some(ProductAgua.presentations) ])

\* a product of an older backup: numeric id, price instead of pricePerLiter
FileProductOld ==
    Some([ id |-> Num(22), name |-> Some(NameJugo), pricePerLiter |-> Absent,
           price |-> Str(300), presentations |-> Null ])

FileProductNoId ==
    Some([ id |-> Absent, name |-> Some(NameJugo), pricePerLiter |-> Num(300),
           price |-> Absent, presentations |-> Null ])

FileSale ==
    Some([ id |-> Str(31), date |-> Some("earlier"), totalAmount |-> Num(3000),
           items |-> Some(OldSale.items) ])

FileSaleNoDate == Some([ id |-> Str(32), date |-> Null, totalAmount |-> Num(1000), items |-> Null ])

FileSaleNoId ==
    Some([ id |-> Absent, date |-> Some("earlier"), totalAmount |-> Str(1000), items |-> Null ])

FileExpense == Some([ id |-> Str(41), amount |-> Num(12500), date |-> Some("earlier") ])

\* an expense as saveExpense stores it: the amount is a string
FileExpenseTyped == Some([ id |-> Str(42), amount |-> Str(12500), date |-> Some("earlier") ])

FileExpenseBare == Some([ id |-> Absent, amount |-> Text, date |-> Null ])

FileCategory == Some([ id |-> Str(51), name |-> Some("Renta") ])

FileCategoryNoId == Some([ id |-> Absent, name |-> Some("Gas") ])

FileCategoryNoName == Some([ id |-> Str(52), name |-> Null ])

FilePresentation ==
    Some([ id |-> 3, name |-> Some("2L"), liters |-> Num(20),
           isProtected |-> FALSE, seeded |-> FALSE ])

FilePresentationTyped ==
    Some([ id |-> 4, name |-> Some("Galon"), liters |-> Str(38),
           isProtected |-> FALSE, seeded |-> FALSE ])

FilePresentationNoLiters ==
    Some([ id |-> 5, name |-> Some("Vaso"), liters |-> Absent,
           isProtected |-> FALSE, seeded |-> FALSE ])

FileProductsFields ==
    { NotArray("string"), NotArray("null"), NotArray("object"), Undefined,
      ArrayOf(<<FileProduct, FileProductOld>>), ArrayOf(<<FileProductNoId, Null, FileProduct>>) }

FileSalesFields ==
    { Undefined, NotArray("number"), ArrayOf(<<FileSale>>),
      ArrayOf(<<FileSaleNoDate, FileSale>>), ArrayOf(<<FileSaleNoId, Null>>) }

FileExpensesFields ==
    { Undefined, NotArray("string"), ArrayOf(<<FileExpense>>),
      ArrayOf(<<FileExpenseTyped, FileExpense>>), ArrayOf(<<FileExpenseBare, Null>>) }

FileCategoriesFields ==
    { Undefined, ArrayOf(<<FileCategory>>),
      ArrayOf(<<FileCategoryNoId, FileCategoryNoName, FileCategory>>) }

FilePresentationsFields ==
    { Undefined, NotArray("object"),
      ArrayOf(<<PresentationJson(SeedPresentations[1]), PresentationJson(SeedPresentations[2]),
                FilePresentation>>),
      ArrayOf(<<Null, FilePresentationTyped, FilePresentationNoLiters>>) }

NoFields ==
    [ products |-> Undefined, salesHistory |-> Undefined, expenses |-> Undefined,
      expenseCategories |-> Undefined, presentations |-> Undefined ]

\* JSON objects, then the files that hold an array, null, a number or no JSON
ImportFiles ==
    [ top : {"object"}, products : FileProductsFields, salesHistory : FileSalesFields,
      expenses : FileExpensesFields, expenseCategories : FileCategoriesFields,
      presentations : FilePresentationsFields ]
    \cup { [top |-> x] @@ NoFields : x \in {"array", "null", "number", "garbage"} }

InitImport ==
    /\ InitCommon
    /\ products = <<ProductAgua, ProductJugo>>
    /\ salesHistory = <<>>
    /\ idSeq = NextFreeId
    /\ stored = Some(Data)

\* expenses are entered, then one file is imported
ImportExpense ==
    /\ Len(expenses) < MaxExpenses
    /\ IsNull(doc)
    /\ saveExpense(12500)
    /\ UNCHANGED <<hist, doc>>

ImportFile ==
    /\ IsNull(doc)
    /\ \E d \in ImportFiles : importData(d) /\ doc' = Some(d)
    /\ UNCHANGED hist

NextImport ==
    \/ ImportExpense
    \/ ImportFile

SpecImport == InitImport /\ [][NextImport]_vars


(***************************************************************************)
(* SpecRegistry: the presentation registry under its editor, reloads,      *)
(* backups and imports.                                                    *)
(***************************************************************************)
\* a file no backup of this program: two entries share the id 1, and the
\* second has the name and size of a base presentation but no flag
ForeignFile ==
    [ NoFields EXCEPT
        !.presentations =
            ArrayOf(<< Some([ id |-> 1, name |-> Some("Garrafon"), liters |-> Num(190),
                              isProtected |-> FALSE, seeded |-> FALSE ]),
                       Some([ id |-> 1, name |-> Some("500ml"), liters |-> Str(5),
                              isProtected |-> FALSE, seeded |-> FALSE ]) >>) ]
    @@ [top |-> "object"]

\* a file whose "500ml" has another size, and whose ids are no numbers
ForeignFileResized ==
    [ NoFields EXCEPT
        !.presentations =
            ArrayOf(<< Some([ id |-> NoId, name |-> Some("500ml"), liters |-> Num(6),
                              isProtected |-> FALSE, seeded |-> FALSE ]) >>) ]
    @@ [top |-> "object"]

ForeignFiles == { ForeignFile, ForeignFileResized }

InitRegistry ==
    /\ InitCommon
    /\ products = <<ProductAgua, ProductJugo>>
    /\ salesHistory = <<>>
    /\ idSeq = NextFreeId
    /\ stored = Some(Data)

RegistryWithin ==
    /\ Len(presentations) <= MaxPresentations
    /\ \A k \in 1..Len(presentations) : presentations[k].id <= MaxPresentationId

RegistryAdd ==
    /\ addPresentation("2L", 20)
    /\ RegistryWithin'
    /\ UNCHANGED <<hist, doc>>

\* the edit form shows the entry's name and size; either or both are changed
RegistryEdit ==
    /\ \E k \in 1..Len(presentations) :
         \E name \in {presentations[k].name, "Chico"}, liters \in {presentations[k].liters, 7} :
            saveEditedPresentation(presentations[k].id, name, liters)
    /\ UNCHANGED <<hist, doc>>

RegistryDelete ==
    /\ \E k \in 1..Len(presentations), confirmed \in BOOLEAN :
          deletePresentation(presentations[k].id, confirmed)
    /\ UNCHANGED <<hist, doc>>

RegistryReload ==
    /\ Reload
    /\ RegistryWithin'
    /\ UNCHANGED <<hist, doc>>

\* a backup is downloaded and imported.  importData replaces AppState.data,
\* so importing it later, from another state, leaves this same state.
RegistryRestore ==
    /\ importData(Exported(Data))
    /\ RegistryWithin'
    /\ UNCHANGED <<hist, doc>>

RegistryImportForeign ==
    /\ \E d \in ForeignFiles : importData(d)
    /\ RegistryWithin'
    /\ UNCHANGED <<hist, doc>>

NextRegistry ==
    \/ RegistryAdd
    \/ RegistryEdit
    \/ RegistryDelete
    \/ RegistryReload
    \/ RegistryRestore
    \/ RegistryImportForeign

SpecRegistry == InitRegistry /\ [][NextRegistry]_vars


(***************************************************************************)
(* SpecApp: every handler of the application, on the catalog of Spec with  *)
(* one day already in the ledger.                                          *)
(***************************************************************************)
InitApp ==
    /\ InitCommon
    /\ products = <<ProductAgua, ProductJugo>>
    /\ salesHistory = <<OldSale>>
    /\ idSeq = NextFreeId
    /\ stored = Some(Data)

\* one more handler has run
Step ==
    /\ steps < MaxSteps
    /\ steps' = steps + 1
    /\ UNCHANGED <<s0, nOps, nUndo, doc, assigned, aside>>

NameUva == <<"U", "v", "a">>

\* the setup list is shown while no session is active; its checkboxes are
\* the products of the catalog
AppStart ==
    /\ posActiveProducts = <<>>
    /\ \E selectedIds \in SUBSET {products[i].id : i \in 1..Len(products)} :
          startPosDay(selectedIds)
    /\ Step

\* the buttons of the session view belong to the items of the session
AppUpdate ==
    /\ \E i \in 1..Len(posActiveProducts) :
         \E n \in 1..Len(posActiveProducts[i].presentationItems), delta \in Buttons :
            updatePosItemCount(posActiveProducts[i].id,
                               posActiveProducts[i].presentationItems[n].presentationId, delta)
    /\ Step

AppUndo ==
    /\ undoPosAction
    /\ Step

AppResetProduct ==
    /\ \E i \in 1..Len(posActiveProducts) : resetProductCounts(posActiveProducts[i].id)
    /\ Step

AppResetPresentation ==
    /\ \E i \in 1..Len(posActiveProducts) :
         \E n \in 1..Len(posActiveProducts[i].presentationItems) :
            resetPresentationCount(posActiveProducts[i].id,
                                   posActiveProducts[i].presentationItems[n].presentationId)
    /\ Step

AppClose ==
    /\ posActiveProducts # <<>>
    /\ \E confirmed \in BOOLEAN : closePosDay(confirmed)
    /\ Step

AppSaveProduct ==
    /\ \E id \in {Null} \cup {Some(products[i].id) : i \in 1..Len(products)},
          selected \in FormSelections :
          saveProduct(id, NameUva, FormPrice, selected)
    /\ Step

AppDeleteProduct ==
    /\ \E i \in 1..Len(products), confirmed \in BOOLEAN :
          deleteProduct(products[i].id, confirmed)
    /\ Step

AppAddPresentation ==
    /\ addPresentation("2L", 20)
    /\ Step

AppEditPresentation ==
    /\ \E n \in 1..Len(presentations) :
         \E form \in { <<"Chico", presentations[n].liters>>, <<presentations[n].name, 7>> } :
            saveEditedPresentation(presentations[n].id, form[1], form[2])
    /\ Step

AppDeletePresentation ==
    /\ \E n \in 1..Len(presentations), confirmed \in BOOLEAN :
          deletePresentation(presentations[n].id, confirmed)
    /\ Step

AppAddCategory ==
    /\ addCategory("Renta")
    /\ Step

AppDeleteCategory ==
    /\ \E i \in 1..Len(expenseCategories), confirmed \in BOOLEAN :
          deleteCategory(expenseCategories[i].id, confirmed)
    /\ Step

AppSaveExpense ==
    /\ saveExpense(12500)
    /\ Step

AppDeleteExpense ==
    /\ \E i \in 1..Len(expenses), confirmed \in BOOLEAN :
          deleteExpense(expenses[i].id, confirmed)
    /\ Step

\* files: the backup of the present state, a foreign file, an array, null,
\* and a text that is no JSON
AppFiles ==
    { Exported(Data), ForeignFile }
    \cup { [top |-> x] @@ NoFields : x \in {"array", "null", "garbage"} }

AppImport ==
    /\ \E d \in AppFiles : importData(d)
    /\ Step

AppDeleteAll ==
    /\ \E word \in BOOLEAN, confirmed \in BOOLEAN : deleteAllData(word, confirmed)
    /\ Step

AppReload ==
    /\ Reload
    /\ Step

NextApp ==
    \/ AppStart
    \/ AppUpdate
    \/ AppUndo
    \/ AppResetProduct
    \/ AppResetPresentation
    \/ AppClose
    \/ AppSaveProduct
    \/ AppDeleteProduct
    \/ AppAddPresentation
    \/ AppEditPresentation
    \/ AppDeletePresentation
    \/ AppAddCategory
    \/ AppDeleteCategory
    \/ AppSaveExpense
    \/ AppDeleteExpense
    \/ AppImport
    \/ AppDeleteAll
    \/ AppReload

SpecApp == InitApp /\ [][NextApp]_vars


(***************************************************************************)
(* SpecStart: startPosDay on catalogs of up to MaxCatalog products.        *)
(***************************************************************************)
\* a sample given away: the 500ml has the fixed price 0
ProductMuestra ==
    [ id |-> 8, name |-> <<"M">>, pricePerLiter |-> 250,
      presentations |->
        << [id |-> 1, name |-> "500ml", liters |-> 5, price |-> Some(0)] >> ]

\* a product whose only presentation deletePresentation has removed
ProductVacio ==
    [ id |-> 9, name |-> <<"V">>, pricePerLiter |-> 100, presentations |-> <<>> ]

StartProducts == { ProductAgua, ProductJugo, ProductMuestra, ProductVacio }

RECURSIVE CatalogsOf(_)
\* the catalogs of n different products
CatalogsOf(n) ==
    IF n = 0 THEN { <<>> }
    ELSE { Append(c, p) : c \in CatalogsOf(n - 1), p \in StartProducts }
         \cap { c \in Seq(StartProducts) : \A i, j \in 1..Len(c) : i # j => c[i] # c[j] }

InitStart ==
    /\ InitCommon
    /\ \E n \in 1..MaxCatalog : products \in CatalogsOf(n)
    /\ salesHistory = <<>>
    /\ idSeq = NextFreeId
    /\ stored = Some(Data)

\* the ticked boxes; 99 is a product deleted in another tab
StartIds == {4, 5, 8, 9, 99}

StartDay ==
    /\ posActiveProducts = <<>>
    /\ \E selectedIds \in SUBSET StartIds : startPosDay(selectedIds)
    /\ UNCHANGED <<hist, doc>>

StartClose ==
    /\ posActiveProducts # <<>>
    /\ idSeq < NextFreeId + MaxCloses
    /\ \E confirmed \in BOOLEAN : closePosDay(confirmed)
    /\ UNCHANGED <<hist, doc>>

NextStart ==
    \/ StartDay
    \/ StartClose

SpecStart == InitStart /\ [][NextStart]_vars

(***************************************************************************)
(* SpecCascade: presentations are added to the registry, ticked in the     *)
(* product form and deleted again.                                         *)
(***************************************************************************)
\* entries the registry holds at most
MaxCascade == 4

InitCascade ==
    /\ InitCommon
    /\ products = <<ProductAgua, ProductJugo>>
    /\ salesHistory = <<>>
    /\ idSeq = NextFreeId
    /\ stored = Some(Data)

\* the reference the product form makes of a registry entry, no price typed
RefOf(p) == [id |-> p.id, name |-> p.name, liters |-> p.liters, price |-> Null]

\* the hidden field: the ticked entries, in the order of the registry
RefsOf(ticked) ==
    LET Ticked(p) == p.id \in ticked
        chosen == Filter(presentations, Ticked)
    IN  [n \in 1..Len(chosen) |-> RefOf(chosen[n])]

RegistryIds == {presentations[k].id : k \in 1..Len(presentations)}

CascadeAdd ==
    /\ Len(presentations) < MaxCascade
    /\ \E entry \in { <<"2L", 20>>, <<"Garrafon", 190>> } :
          addPresentation(entry[1], entry[2])
    /\ UNCHANGED <<hist, doc>>

\* every box is ticked, or only the one of the newest entry
CascadeTick ==
    /\ \E i \in 1..Len(products),
          ticked \in {RegistryIds, {presentations[Len(presentations)].id}} :
          saveProduct(Some(products[i].id), products[i].name,
                      products[i].pricePerLiter, RefsOf(ticked))
    /\ UNCHANGED <<hist, doc>>

\* the button of an entry, or of one another tab has deleted already
CascadeDelete ==
    /\ \E id \in 1..MaxCascade, confirmed \in BOOLEAN :
          deletePresentation(id, confirmed)
    /\ UNCHANGED <<hist, doc>>

NextCascade ==
    \/ CascadeAdd
    \/ CascadeTick
    \/ CascadeDelete

SpecCascade == InitCascade /\ [][NextCascade]_vars

(***************************************************************************)
(* SpecBackup: a backup is downloaded once and imported later, with        *)
(* sessions, expenses and registry edits before, between and after.        *)
(***************************************************************************)
\* handlers run in one behaviour
MaxBackup == 6

InitBackup == InitApp

BackupStep ==
    /\ steps < MaxBackup
    /\ steps' = steps + 1
    /\ UNCHANGED <<s0, nOps, nUndo, assigned, aside>>

BackupStart ==
    /\ posActiveProducts = <<>>
    /\ \E selectedIds \in {{4}, {4, 5}} : startPosDay(selectedIds)
    /\ BackupStep
    /\ UNCHANGED doc

BackupUpdate ==
    /\ posActiveProducts # <<>>
    /\ updatePosItemCount(posActiveProducts[1].id,
                          posActiveProducts[1].presentationItems[1].presentationId, 1)
    /\ BackupStep
    /\ UNCHANGED doc

BackupExpense ==
    /\ Len(expenses) < MaxExpenses
    /\ saveExpense(12500)
    /\ BackupStep
    /\ UNCHANGED doc

\* a seeded entry is given another name and size, or another size only
BackupEdit ==
    /\ \E n \in 1..Len(presentations) :
         \E form \in { <<"Chico", 7>>, <<presentations[n].name, 7>> } :
            saveEditedPresentation(presentations[n].id, form[1], form[2])
    /\ BackupStep
    /\ UNCHANGED doc

BackupExport ==
    /\ IsNull(doc)
    /\ exportData
    /\ BackupStep

BackupImport ==
    /\ ~IsNull(doc)
    /\ importData(Val(doc))
    /\ BackupStep
    /\ UNCHANGED doc

NextBackup ==
    \/ BackupStart
    \/ BackupUpdate
    \/ BackupExpense
    \/ BackupEdit
    \/ BackupExport
    \/ BackupImport

SpecBackup == InitBackup /\ [][NextBackup]_vars

(***************************************************************************)
(* SpecIds: the registry is added to, edited, deleted from and loaded,     *)
(* and the ids its entries were given are remembered in `assigned`.        *)
(***************************************************************************)
InitIds == InitRegistry

IdsTrack ==
    /\ assigned' = assigned \cup RegistryIds'
    /\ UNCHANGED <<s0, nOps, nUndo, steps, doc, aside>>

IdsAdd ==
    /\ addPresentation("2L", 20)
    /\ RegistryWithin'
    /\ IdsTrack

IdsEdit ==
    /\ \E k \in 1..Len(presentations) :
         \E name \in {presentations[k].name, "Chico"}, liters \in {presentations[k].liters, 7} :
            saveEditedPresentation(presentations[k].id, name, liters)
    /\ IdsTrack

IdsDelete ==
    /\ \E k \in 1..Len(presentations), confirmed \in BOOLEAN :
          deletePresentation(presentations[k].id, confirmed)
    /\ IdsTrack

IdsReload ==
    /\ Reload
    /\ RegistryWithin'
    /\ IdsTrack

NextIds ==
    \/ IdsAdd
    \/ IdsEdit
    \/ IdsDelete
    \/ IdsReload

SpecIds == InitIds /\ [][NextIds]_vars

(***************************************************************************)
(* service-worker.js: the install event.  cache.addAll(ASSETS) fetches     *)
(* every asset; it resolves, with every response stored, when all fetches  *)
(* succeeded, and rejects, with nothing stored, when one failed.  The      *)
(* promise goes to event.waitUntil: on rejection the install fails and the *)
(* worker becomes redundant.                                               *)
(***************************************************************************)
ASSETS ==
    { "./", "./index.html", "./style.css", "./app.js", "./manifest.json",
      "placeholder-192", "placeholder-512" }

\* what the application's handlers hold, untouched by worker and modal
appVars == <<dataVars, stack, stored, idSeq, last, s0, nOps, nUndo, doc, steps, assigned>>

InitWorker ==
    /\ InitCommon
    /\ products = <<>>
    /\ salesHistory = <<>>
    /\ idSeq = FirstFreeId
    /\ stored = Some(Data)

\* self.addEventListener('install', ...): caches.open, then cache.addAll starts
WorkerInstall ==
    /\ worker.state = "parsed"
    /\ worker' = [worker EXCEPT !.state = "installing"]
    /\ UNCHANGED <<appVars, modal>>

\* one of the fetches of addAll settles: a response, or a network error
WorkerFetch ==
    /\ worker.state = "installing"
    /\ \E asset \in ASSETS \ (worker.fetched \cup worker.failed) :
          \/ worker' = [worker EXCEPT !.fetched = @ \cup {asset}]
          \/ worker' = [worker EXCEPT !.failed = @ \cup {asset}]
    /\ UNCHANGED <<appVars, modal>>

\* cache.addAll settles, and with it event.waitUntil
AddAllSettled(w) ==
    IF w.failed = {}
    THEN [w EXCEPT !.state = "installed", !.cache = w.fetched]
    ELSE [w EXCEPT !.state = "redundant"]

WorkerSettle ==
    /\ worker.state = "installing"
    /\ worker.failed # {} \/ worker.fetched = ASSETS
    /\ worker' = AddAllSettled(worker)
    /\ UNCHANGED <<appVars, modal>>

NextWorker ==
    \/ WorkerInstall
    \/ WorkerFetch
    \/ WorkerSettle

SpecWorker == InitWorker /\ [][NextWorker]_vars

(***************************************************************************)
(* Views.renderModal and Views.closeModal.  `overlays` are the elements of *)
(* class modal-overlay in document order, `timers` the pending 200 ms      *)
(* removals in the order they were set (equal delays fire in that order),  *)
(* `created` the number of overlays made, `closing` whether closeModal()   *)
(* was called on a shown modal and no renderModal since.                   *)
(***************************************************************************)
\* overlays made in one behaviour
MaxModals == 4

\* removals pending at once
MaxTimers == 4

\* closeModal(modalElement): setTimeout(() => modal.remove(), 200)
ClosedIn(m, element) == [m EXCEPT !.timers = Append(@, element)]

\* document.querySelector('.modal-overlay'): the first one in the document
FirstOverlay(m) == Head(m.overlays)

renderModal ==
    /\ modal' =
          LET closed == IF modal.overlays # <<>>
                        THEN ClosedIn(modal, FirstOverlay(modal))
                        ELSE modal
          IN  [closed EXCEPT !.overlays = Append(@, modal.created + 1),
                             !.created = @ + 1,
                             !.closing = FALSE]
    /\ UNCHANGED <<appVars, worker>>

\* Views.closeModal() without argument
closeModal ==
    /\ modal' = IF modal.overlays = <<>> THEN modal
                ELSE [ClosedIn(modal, FirstOverlay(modal)) EXCEPT !.closing = TRUE]
    /\ UNCHANGED <<appVars, worker>>

\* the oldest timer fires: modal.remove()
RemoveOverlay ==
    /\ modal' = LET Other(o) == o # Head(modal.timers)
                IN  [modal EXCEPT !.overlays = Filter(@, Other), !.timers = Tail(@)]
    /\ UNCHANGED <<appVars, worker>>

InitModal == InitWorker

ModalRender ==
    /\ modal.created < MaxModals
    /\ Len(modal.timers) < MaxTimers
    /\ renderModal

ModalClose ==
    /\ modal.overlays # <<>>
    /\ Len(modal.timers) < MaxTimers
    /\ closeModal

ModalTimer ==
    /\ modal.timers # <<>>
    /\ RemoveOverlay

NextModal ==
    \/ ModalRender
    \/ ModalClose
    \/ ModalTimer

SpecModal == InitModal /\ [][NextModal]_vars

(***************************************************************************)
(* The two totals as floating-point computations.  Amounts are JavaScript  *)
(* Numbers: every + and * rounds its exact result to the nearest           *)
(* representable value, ties to even.  The model keeps that rounding with  *)
(* a mantissa of MantissaBits bits instead of 53, over amounts in          *)
(* thousandths.                                                            *)
(***************************************************************************)
MantissaBits == 8

RECURSIVE Pow2(_)
Pow2(n) == IF n = 0 THEN 1 ELSE 2 * Pow2(n - 1)

RECURSIVE Ulp(_)
\* the spacing of the representable values around n
Ulp(n) == IF n < Pow2(MantissaBits) THEN 1 ELSE 2 * Ulp(n \div 2)

\* round to nearest, ties to even
Rounded(n) ==
    LET s == Ulp(n)
        q == n \div s
        r == n % s
    IN  IF 2 * r < s THEN q * s
        ELSE IF 2 * r > s THEN (q + 1) * s
        ELSE IF q % 2 = 0 THEN q * s ELSE (q + 1) * s

FloatAdd(a, b) == Rounded(a + b)

FloatMul(a, b) == Rounded(a * b)

RECURSIVE FloatPresTotal(_)
\* (prod.presentationItems || []).reduce((s, pi) => s + (price * count), 0)
FloatPresTotal(items) ==
    IF Len(items) = 0 THEN 0
    ELSE FloatAdd(FloatPresTotal(SubSeq(items, 1, Len(items) - 1)),
                  FloatMul(OrZero(items[Len(items)].price), OrZero(items[Len(items)].count)))

RECURSIVE FloatPosTotal(_)
\* Views._calculatePosTotal(): sum + presTotal, entry by entry
FloatPosTotal(session) ==
    IF Len(session) = 0 THEN 0
    ELSE FloatAdd(FloatPosTotal(SubSeq(session, 1, Len(session) - 1)),
                  FloatPresTotal(session[Len(session)].presentationItems))

RECURSIVE FloatFoldItems(_, _, _)
\* closePosDay: totalAmount += presItem.price * presItem.count, item by item
FloatFoldItems(entry, k, totalAmount) ==
    IF k > Len(entry.presentationItems) THEN totalAmount
    ELSE LET presItem == entry.presentationItems[k] IN
         IF Sold(presItem)
         THEN FloatFoldItems(entry, k + 1,
                             FloatAdd(totalAmount, FloatMul(presItem.price, presItem.count)))
         ELSE FloatFoldItems(entry, k + 1, totalAmount)

RECURSIVE FloatCloseTotal(_, _, _)
\* closePosDay: the outer forEach, from entry i on
FloatCloseTotal(session, i, totalAmount) ==
    IF i > Len(session) THEN totalAmount
    ELSE FloatCloseTotal(session, i + 1, FloatFoldItems(session[i], 1, totalAmount))

(***************************************************************************)
(* SpecTotals: days on the catalog in either order; the page is reloaded   *)
(* now and then, which empties the undo log and keeps the session.         *)
(***************************************************************************)
InitTotals ==
    /\ InitCommon
    /\ products \in { <<ProductAgua, ProductJugo>>, <<ProductJugo, ProductAgua>> }
    /\ salesHistory = <<>>
    /\ idSeq = NextFreeId
    /\ stored = Some(Data)

TotalsStart ==
    /\ posActiveProducts = <<>>
    /\ DayOpen
    /\ \E selectedIds \in {{4, 5}, {5}} : startPosDay(selectedIds)
    /\ UNCHANGED <<hist, doc>>

TotalsUpdate ==
    /\ \E i \in 1..Len(posActiveProducts) :
         \E n \in 1..Len(posActiveProducts[i].presentationItems), delta \in Buttons :
            updatePosItemCount(posActiveProducts[i].id,
                               posActiveProducts[i].presentationItems[n].presentationId, delta)
    /\ Within'
    /\ UNCHANGED <<hist, doc>>

TotalsReload ==
    /\ stack # <<>>
    /\ Reload
    /\ UNCHANGED <<hist, doc>>

TotalsClose ==
    /\ posActiveProducts # <<>>
    /\ idSeq < NextFreeId + MaxCloses
    /\ \E confirmed \in BOOLEAN : closePosDay(confirmed)
    /\ UNCHANGED <<hist, doc>>

NextTotals ==
    \/ TotalsStart
    \/ TotalsUpdate
    \/ TotalsReload
    \/ TotalsClose

SpecTotals == InitTotals /\ [][NextTotals]_vars


(***************************************************************************)
(* C1.  Every presentation item's count is >= 0 in every reachable state,  *)
(* and a call of updatePosItemCount whose count + delta would be negative  *)
(* changes neither the session, nor the persisted document, nor the depth  *)
(* of the undo log.                                                        *)
(***************************************************************************)
CountsNonNegative ==
    \A pos \in ItemPositions(posActiveProducts) :
        ItemAt(posActiveProducts, pos).count >= 0

C1_NeverNegative ==
    /\ []CountsNonNegative
    /\ [][\A productId \in ProductIdArgs, presentationId \in PresentationIdArgs,
             delta \in Deltas :
             (GoesNegative(productId, presentationId, delta)
                /\ updatePosItemCount(productId, presentationId, delta))
             => /\ posActiveProducts' = posActiveProducts
                /\ stored' = stored
                /\ Len(stack') = Len(stack)]_vars

\* a decrement below zero was refused while the undo log held a snapshot
C1_Witness ==
    /\ LastWas("updatePosItemCount", "rejected")
    /\ Len(stack) > 0
    /\ \E pos \in ItemPositions(posActiveProducts) :
          ItemAt(posActiveProducts, pos).count = 0

(***************************************************************************)
(* C3.  In every reachable session state _calculatePosTotal() equals the   *)
(* sum of price x count over every presentation item of every entry.       *)
(***************************************************************************)
C3_TotalIsSum ==
    calculatePosTotal(posActiveProducts)
        = SumOfPositions(posActiveProducts, ItemPositions(posActiveProducts))

\* prices 1.00 and 1.80 with counts 3 and 2 give 6.60
C3_Witness ==
    /\ Len(posActiveProducts) = 1
    /\ posActiveProducts[1].presentationItems[1].price = 1000
    /\ posActiveProducts[1].presentationItems[1].count = 3
    /\ posActiveProducts[1].presentationItems[2].price = 1800
    /\ posActiveProducts[1].presentationItems[2].count = 2
    /\ calculatePosTotal(posActiveProducts) = 6600

(***************************************************************************)
(* C4.  A confirmed closePosDay appends exactly one sale record; its line  *)
(* items are, in session order, exactly the presentation items with        *)
(* count > 0, each with the product id, product name, presentation name,   *)
(* session price, count and total = price x count; its totalAmount is the  *)
(* sum of the line totals.                                                 *)
(***************************************************************************)
C4_CloseFold ==
    [][closePosDay(TRUE) =>
        /\ Len(salesHistory') = Len(salesHistory) + 1
        /\ SubSeq(salesHistory', 1, Len(salesHistory)) = salesHistory
        /\ LET record == salesHistory'[Len(salesHistory')]
           IN  /\ IsFoldOf(posActiveProducts, record.items)
               /\ record.totalAmount = SumOfTotals(record.items)]_vars

\* the day with 3 x 500ml at 1.00 and 2 x 1L at 1.80 was closed: 6.60, two lines
C4_Witness ==
    /\ LastWas("closePosDay", "ok")
    /\ Len(salesHistory) > 0
    /\ LET record == salesHistory[Len(salesHistory)]
       IN  /\ record.totalAmount = 6600
           /\ Len(record.items) = 2
           /\ record.items[1].count = 3
           /\ record.items[2].count = 2

(***************************************************************************)
(* C5.  Immediately after a confirmed closePosDay the session is empty and *)
(* the undo log is empty (canUndo() is false), whatever the log held.      *)
(***************************************************************************)
C5_CloseClears ==
    LastWas("closePosDay", "ok") => (posActiveProducts = <<>> /\ ~canUndo)

\* a day with sales was closed: its counters had pushed snapshots
C5_Witness ==
    /\ LastWas("closePosDay", "ok")
    /\ Len(salesHistory) > 0
    /\ Len(salesHistory[Len(salesHistory)].items) > 0
    /\ posActiveProducts = <<>>

(***************************************************************************)
(* C6.  resetPresentationCount on an item whose count is 0, and            *)
(* resetProductCounts on a product whose items are all 0, leave the        *)
(* session, the undo log and the persisted document unchanged; on non-zero *)
(* counts they push exactly one snapshot and set the count(s) to 0.        *)
(***************************************************************************)
EntriesOf(productId) ==
    { i \in 1..Len(posActiveProducts) : posActiveProducts[i].id = productId }

C6_ResetPresentationStep(productId, presentationId) ==
    \A pos \in ItemPositions(posActiveProducts) :
        (/\ posActiveProducts[pos[1]].id = productId
         /\ ItemAt(posActiveProducts, pos).presentationId = presentationId)
        => IF ItemAt(posActiveProducts, pos).count = 0
           THEN UNCHANGED <<posActiveProducts, stack, stored>>
           ELSE /\ stack' = Append(stack, posActiveProducts)
                /\ ItemAt(posActiveProducts', pos).count = 0
                /\ \A q \in ItemPositions(posActiveProducts) \ {pos} :
                      ItemAt(posActiveProducts', q) = ItemAt(posActiveProducts, q)

C6_ResetProductStep(productId) ==
    \A i \in EntriesOf(productId) :
        IF \A k \in 1..Len(posActiveProducts[i].presentationItems) :
               posActiveProducts[i].presentationItems[k].count = 0
        THEN UNCHANGED <<posActiveProducts, stack, stored>>
        ELSE /\ stack' = Append(stack, posActiveProducts)
             /\ \A q \in ItemPositions(posActiveProducts) :
                   ItemAt(posActiveProducts', q).count
                     = IF q[1] = i THEN 0 ELSE ItemAt(posActiveProducts, q).count

C6_ResetWhenZero ==
    [][/\ \A productId \in ProductIdArgs, presentationId \in PresentationIdArgs :
            resetPresentationCount(productId, presentationId)
            => C6_ResetPresentationStep(productId, presentationId)
       /\ \A productId \in ProductIdArgs :
            resetProductCounts(productId) => C6_ResetProductStep(productId)]_vars

\* a reset met counters already at zero below a non-empty undo log
C6_Witness ==
    /\ last.op \in {"resetPresentationCount", "resetProductCounts"}
    /\ last.outcome = "zero"
    /\ Len(stack) > 0

Pushed ==
    /\ last'.outcome = "ok"
    /\ last'.op \in {"updatePosItemCount", "resetProductCounts", "resetPresentationCount"}

C10_BoundedLog ==
    /\ [](Len(stack) <= 50)
    /\ [][(Pushed /\ Len(stack) = 50)
            => stack' = Append(Tail(stack), posActiveProducts)]_vars

\* the log is full and its oldest snapshot is no longer the fresh session
C10_Witness ==
    /\ Len(stack) = 50
    /\ stack[1] # s0
    /\ LastWas("updatePosItemCount", "ok")

(***************************************************************************)
(* C9.  Names compared as the claim states it: after trimming and          *)
(* lower-casing.                                                           *)
(***************************************************************************)
Canonical(name) == ToLowerCase(TrimEnd(TrimStart(name)))

NamesUnique(catalog) ==
    \A i, j \in 1..Len(catalog) :
        i # j => Canonical(catalog[i].name) # Canonical(catalog[j].name)

\* saving `name` for `id` (<<>> to create) would put two equal names in the catalog
WouldCollide(id, name) ==
    \E i \in 1..Len(products) :
        /\ Some(products[i].id) # id
        /\ Canonical(products[i].name) = Canonical(name)

\* C9: no two products of the catalog have names that are equal after
\* trimming and lower-casing; a saveProduct (create or edit) that would make
\* such a pair is rejected and leaves the catalog and the stored document as
\* they were; an edit that keeps the product's own name is accepted.
C9_UniqueNames ==
    /\ [](NamesUnique(products))
    /\ [][ \A id \in {Null} \cup {Some(products[i].id) : i \in 1..Len(products)},
              name \in {n \in FormNames \cup {products[i].name : i \in 1..Len(products)} :
                            last'.op = "saveProduct" /\ last'.name = n},
              selected \in FormSelections :
              saveProduct(id, name, FormPrice, selected) =>
                /\ WouldCollide(id, name) =>
                      /\ products' = products
                      /\ stored' = stored
                      /\ last'.outcome \in {"duplicate", "noname"}
                /\ ( /\ selected # <<>>
                     /\ \E i \in 1..Len(products) :
                           id = Some(products[i].id) /\ name = products[i].name )
                   => /\ last'.outcome = "ok"
                      /\ Len(products') = Len(products) ]_vars

\* "Agua" was typed for a new product while "agua " is in the catalog, and
\* the form was turned down
C9_Witness ==
    /\ LastWas("saveProduct", "duplicate")
    /\ last.name = NameAgua
    /\ \A i \in 1..Len(products) : products[i].name # NameAgua
    /\ \E i \in 1..Len(products) : products[i].name = NameAguaSpaced
    /\ Len(products) = 2

(***************************************************************************)
(* C8.  A sibling field is a valid array when it is an array of records    *)
(* that have the properties and types the application works with.          *)
(***************************************************************************)
ProductsNotArray(d) == d.top = "object" /\ d.products.t \notin {"array", "absent"}

ValidSale(e) ==
    /\ ~IsNull(e)
    /\ Val(e).id.ty = "string" /\ ~IsNull(Val(e).date)
    /\ Val(e).totalAmount.ty = "number" /\ ~IsNull(Val(e).items)

ValidExpense(e) ==
    /\ ~IsNull(e)
    /\ Val(e).id.ty = "string" /\ Val(e).amount.ty = "number" /\ ~IsNull(Val(e).date)

ValidCategory(e) == ~IsNull(e) /\ Val(e).id.ty = "string" /\ ~IsNull(Val(e).name)

ValidRegistryEntry(e) == ~IsNull(e) /\ ~IsNull(Val(e).name) /\ Val(e).liters.ty = "number"

\* the records validateImportData returned are those of the file, in order
SameRecords(d, s) ==
    /\ (d.salesHistory.t = "array" /\ \A k \in 1..Len(d.salesHistory.a) : ValidSale(d.salesHistory.a[k]))
          => [k \in 1..Len(s.salesHistory) |-> SaleJson(s.salesHistory[k])] = d.salesHistory.a
    /\ (d.expenses.t = "array" /\ \A k \in 1..Len(d.expenses.a) : ValidExpense(d.expenses.a[k]))
          => [k \in 1..Len(s.expenses) |-> ExpenseJson(s.expenses[k])] = d.expenses.a
    /\ (d.expenseCategories.t = "array"
            /\ \A k \in 1..Len(d.expenseCategories.a) : ValidCategory(d.expenseCategories.a[k]))
          => [k \in 1..Len(s.expenseCategories) |-> CategoryJson(s.expenseCategories[k])]
                = d.expenseCategories.a
    /\ (d.presentations.t = "array"
            /\ \A k \in 1..Len(d.presentations.a) : ValidRegistryEntry(d.presentations.a[k]))
          => [k \in 1..Len(s.presentations) |-> PresentationJson(s.presentations[k])]
                = d.presentations.a

\* the siblings come out as they do from the same file with an empty products array
SiblingsUnaffected(d, s, id) ==
    LET t == Val(validateImportData([d EXCEPT !.products = ArrayOf(<<>>)], id).sanitized)
    IN  /\ s.salesHistory = t.salesHistory
        /\ s.expenses = t.expenses
        /\ s.expenseCategories = t.expenseCategories
        /\ s.presentations = t.presentations

\* C8: validateImportData on a document whose products field is present and
\* is no array returns an empty product list and exactly one warning about
\* products, and every sibling field that is a valid array is returned (and
\* imported) with the records it contained, as if products had been fine.
C8_ProductsNotArray ==
    [][ \A d \in {f \in ImportFiles : doc' = Some(f)} :
          (importData(d) /\ ProductsNotArray(d)) =>
            LET r == validateImportData(d, idSeq)
                s == Val(r.sanitized)
            IN  /\ r.valid
                /\ s.products = <<>>
                /\ Cardinality({k \in 1..Len(r.errors) : r.errors[k].field = "products"}) = 1
                /\ \E k \in 1..Len(r.errors) : r.errors[k] = NotArrayWarning("products")
                /\ SameRecords(d, s)
                /\ SiblingsUnaffected(d, s, idSeq)
                /\ products' = <<>>
                /\ salesHistory' = s.salesHistory
                /\ expenses' = s.expenses
                /\ expenseCategories' = s.expenseCategories
                /\ last'.errors = r.errors ]_vars

\* a file with "products" a string and valid expenses, sales, categories and
\* presentations was imported: one warning, no product, the siblings in place
C8_Witness ==
    /\ LastWas("importData", "warned")
    /\ ~IsNull(doc)
    /\ Val(doc).products = NotArray("string")
    /\ Len(last.errors) = 1
    /\ products = <<>>
    /\ [k \in 1..Len(expenses) |-> ExpenseJson(expenses[k])] = <<FileExpense>>
    /\ [k \in 1..Len(salesHistory) |-> SaleJson(salesHistory[k])] = <<FileSale>>
    /\ [k \in 1..Len(expenseCategories) |-> CategoryJson(expenseCategories[k])] = <<FileCategory>>
    /\ Len(presentations) = 3

(***************************************************************************)
(* C7.  The seeded presentations are the entries the seeding code of       *)
(* Storage.load made, wherever a rename, a resize, a reload, a backup or   *)
(* an import has carried them.                                             *)
(***************************************************************************)
SeededIds == {presentations[k].id : k \in {j \in 1..Len(presentations) : presentations[j].seeded}}

SessionReplaced ==
    /\ last.op \in {"startPosDay", "closePosDay", "importData", "deleteAllData"}
    /\ last.outcome \in {"ok", "warned"}

\* C11: in every state in which the session was just emptied or replaced (by
\* startPosDay, closePosDay, a successful import or deleteAllData) the undo
\* log is empty.  A successful importData leaves the log as it was.
C11_UndoScopedToSession == SessionReplaced => Len(stack) = 0

(***************************************************************************)
(* C12.                                                                    *)
(***************************************************************************)
CatalogOps ==
    {"saveProduct", "deleteProduct", "addPresentation", "saveEditedPresentation",
     "deletePresentation"}

\* the handlers that end a session
SessionEnders == {"closePosDay", "importData", "deleteAllData"}

\* the unit prices of the session, entry by entry and item by item
SessionPrices(session) ==
    [i \in 1..Len(session) |->
        [n \in 1..Len(session[i].presentationItems) |->
            [ productId      |-> session[i].id,
              presentationId |-> session[i].presentationItems[n].presentationId,
              price          |-> session[i].presentationItems[n].price ]]]

\* C12: saveProduct, deleteProduct, addPresentation, saveEditedPresentation
\* and deletePresentation leave posActiveProducts (entries, counts, prices)
\* unchanged, and while a session runs no handler but one that ends it
\* changes the unit price of any of its items.
C12_SessionPricesFixed ==
    [][ /\ last'.op \in CatalogOps => posActiveProducts' = posActiveProducts
        /\ (posActiveProducts # <<>> /\ last'.op \notin SessionEnders)
              => SessionPrices(posActiveProducts') = SessionPrices(posActiveProducts) ]_vars

\* "1L" was resized while a session runs: an item of the session keeps a
\* price the catalog would no longer give it
C12_Witness ==
    /\ LastWas("saveEditedPresentation", "ok")
    /\ \E i \in 1..Len(posActiveProducts), j \in 1..Len(products) :
          /\ products[j].id = posActiveProducts[i].id
          /\ \E n \in 1..Len(posActiveProducts[i].presentationItems),
                m \in 1..Len(products[j].presentations) :
                /\ products[j].presentations[m].id
                      = posActiveProducts[i].presentationItems[n].presentationId
                /\ ResolvePrice(products[j], products[j].presentations[m])
                      # posActiveProducts[i].presentationItems[n].price

(***************************************************************************)
(* C13.                                                                    *)
(***************************************************************************)
\* the price the claim gives an item: the override when one is set, 0
\* included, otherwise pricePerLiter x liters
ClaimedPrice(p, pres) ==
    IF pres.price # <<>> THEN pres.price[1] ELSE p.pricePerLiter * pres.liters

\* the products of the catalog that were selected, in the catalog's order
SelectedPositions(selectedIds) == {j \in 1..Len(products) : products[j].id \in selectedIds}

C13_EntryFor(entry, p) ==
    /\ entry.id = p.id
    /\ Len(entry.presentationItems) = Len(p.presentations)
    /\ \A n \in 1..Len(p.presentations) :
          /\ entry.presentationItems[n].presentationId = p.presentations[n].id
          /\ entry.presentationItems[n].count = 0
          /\ entry.presentationItems[n].price = ClaimedPrice(p, p.presentations[n])

\* C13: startPosDay with a non-empty selection makes exactly one session
\* entry per selected product id that is in the catalog, and per presentation
\* of that product one item with count 0 and the override price when one is
\* set (an override of 0 included), otherwise pricePerLiter x liters.
C13_StartSeedsItems ==
    [][ \A selectedIds \in (SUBSET StartIds) \ {{}} :
          startPosDay(selectedIds) =>
            /\ Len(posActiveProducts') = Cardinality(SelectedPositions(selectedIds))
            /\ \A j \in SelectedPositions(selectedIds) :
                  Cardinality({i \in 1..Len(posActiveProducts') :
                                  posActiveProducts'[i].id = products[j].id}) = 1
            /\ \A i \in 1..Len(posActiveProducts') :
                  \E j \in SelectedPositions(selectedIds) :
                      C13_EntryFor(posActiveProducts'[i], products[j]) ]_vars

\* a day was started with the sample, whose 500ml has the override 0, and
\* with a product that has a computed and an overridden price
C13_Witness ==
    /\ LastWas("startPosDay", "ok")
    /\ \E i \in 1..Len(posActiveProducts) :
          /\ posActiveProducts[i].id = 8
          /\ posActiveProducts[i].presentationItems[1].price = 0
          /\ posActiveProducts[i].pricePerLiter * posActiveProducts[i].presentations[1].liters # 0
    /\ \E i \in 1..Len(posActiveProducts) :
          /\ posActiveProducts[i].id = 4
          /\ posActiveProducts[i].presentationItems[1].price = 1000
          /\ posActiveProducts[i].presentationItems[2].price = 1800

(***************************************************************************)
(* C14.                                                                    *)
(***************************************************************************)
\* the handlers that put another document in the place of AppState.data
Replacers == {"importData", "deleteAllData"}

\* C14: across POS, undo, catalog, presentation, category and expense
\* operations (and reloads) salesHistory only grows; it grows only by a
\* confirmed closePosDay, by exactly one record at its end; every record
\* already in it keeps its position and all its fields.
C14_LedgerAppendOnly ==
    [][ last'.op \notin Replacers =>
          IF last'.op = "closePosDay" /\ last'.outcome = "ok"
          THEN /\ Len(salesHistory') = Len(salesHistory) + 1
               /\ SubSeq(salesHistory', 1, Len(salesHistory)) = salesHistory
          ELSE salesHistory' = salesHistory ]_vars

\* a day was closed and "1L" then renamed: the ledger holds the old record,
\* still with the name "1L" that no presentation has any more, and the new one
C14_Witness ==
    /\ LastWas("saveEditedPresentation", "ok")
    /\ Len(salesHistory) = 2
    /\ salesHistory[1] = OldSale
    /\ \A n \in 1..Len(presentations) : presentations[n].name # "1L"

(***************************************************************************)
(* C15.                                                                    *)
(***************************************************************************)
\* C15: after every handler (saveProduct, deleteProduct, startPosDay, the
\* counter operations, undo, the resets, closePosDay, the presentation,
\* category and expense edits, import, deleteAllData) the document in local
\* storage is the in-memory AppState.data.
C15_Persisted == stored = Some(Data)

\* three handlers changed the session, the last of them an undo, and the
\* stored document holds the restored session
C15_Witness ==
    /\ LastWas("undoPosAction", "ok")
    /\ steps = 3
    /\ posActiveProducts # <<>>
    /\ ~IsNull(stored)
    /\ Val(stored).posActiveProducts = posActiveProducts

(***************************************************************************)
(* C16: after deletePresentation has deleted an unprotected presentation   *)
(* id, no entry of the registry and no reference of any product carries    *)
(* that id, and every product's list is its old list without the           *)
(* references to that id: the others unchanged and in their order.         *)
(***************************************************************************)
RefIds(p) == {p.presentations[n].id : n \in 1..Len(p.presentations)}

\* `after` is `before` with the references to id taken out, order kept
SameButFor(before, after, id) ==
    LET kept == {n \in 1..Len(before) : before[n].id # id}
        Place(n) == Cardinality({m \in kept : m <= n})
    IN  /\ Len(after) = Cardinality(kept)
        /\ \A n \in kept : after[Place(n)] = before[n]

C16_DeleteCascades ==
    [][ \A id \in 1..MaxCascade :
          ( /\ deletePresentation(id, TRUE)
            /\ ~DeleteRefused(presentations, id) )
          => /\ id \notin RegistryIds'
             /\ Len(products') = Len(products)
             /\ \A i \in 1..Len(products) :
                   /\ id \notin RefIds(products'[i])
                   /\ SameButFor(products[i].presentations,
                                 products'[i].presentations, id)
                   /\ products'[i] = [products[i] EXCEPT
                                         !.presentations = products'[i].presentations] ]_vars

\* entry 3 has been deleted: the product that had only it ticked has no
\* reference left (saveProduct accepts no empty list), the other one keeps
\* the entries around it
C16_Witness ==
    /\ LastWas("deletePresentation", "ok")
    /\ 3 \notin RegistryIds
    /\ \E i, j \in 1..Len(products) :
          /\ products[i].presentations = <<>>
          /\ Len(products[j].presentations) = 3
          /\ RefIds(products[j]) = {1, 2, 4}

(***************************************************************************)
(* C17: saveProduct with no presentation selected is rejected: whatever    *)
(* the name typed and whether a product is created or edited, the catalog  *)
(* and the stored document stay as they were.                              *)
(***************************************************************************)
C17_EmptySelectionRejected ==
    [][ \A name \in {n \in FormNames : last'.op = "saveProduct" /\ last'.name = n},
           id \in {Null} \cup {Some(products[i].id) : i \in 1..Len(products)} :
          saveProduct(id, name, FormPrice, <<>>)
          => /\ products' = products
             /\ stored' = stored
             /\ last'.outcome # "ok" ]_vars

\* a new name was typed with nothing ticked, on a catalog that has products
C17_Witness ==
    /\ LastWas("saveProduct", "nopresentation")
    /\ last.name = NameUva
    /\ Len(products) = 2
    /\ stored = Some(Data)

(***************************************************************************)
(* C18: on import, a record without id.  As stated: in each of products,   *)
(* salesHistory, expenses, expenseCategories and presentations every       *)
(* record without id is absent from the imported state and a warning is    *)
(* recorded for it.  As amended: that holds of products (id or name        *)
(* missing); a sale, expense or category without id is kept under a        *)
(* generated id and a presentation is kept whatever its id, without a      *)
(* warning.                                                                *)
(***************************************************************************)
\* the objects of an array field that satisfy Test
Objects(f, Test(_)) ==
    IF f.t # "array" THEN {}
    ELSE {k \in 1..Len(f.a) : ~IsNull(f.a[k]) /\ Test(Val(f.a[k]))}

HasId(r) == r.id.ty # "absent"

LacksId(r) == r.id.ty = "absent"

HasNumericId(r) == r.id # NoId

LacksNumericId(r) == r.id = NoId

AnyRecord(r) == TRUE

Accepted(d) == doc' = Some(d) /\ last'.op = "importData" /\ last'.outcome \in {"ok", "warned"}

\* the statement as made
C18_NoIdDropped ==
    [][ \A d \in {f \in ImportFiles : Accepted(f) /\ f.top = "object"} :
          /\ Len(products') <= Cardinality(Objects(d.products, HasId))
          /\ Len(salesHistory') <= Cardinality(Objects(d.salesHistory, HasId))
          /\ Len(expenses') <= Cardinality(Objects(d.expenses, HasId))
          /\ Len(expenseCategories') <= Cardinality(Objects(d.expenseCategories, HasId))
          /\ \A k \in 1..Len(presentations') : presentations'[k].id # NoId
          /\ Len(last'.errors) >=
                  Cardinality(Objects(d.products, LacksId))
                + Cardinality(Objects(d.salesHistory, LacksId))
                + Cardinality(Objects(d.expenses, LacksId))
                + Cardinality(Objects(d.expenseCategories, LacksId))
                + Cardinality(Objects(d.presentations, LacksNumericId)) ]_vars

\* the ids Utils.generateId() handed out during the step
Generated(list) == {k \in 1..Len(list) : list[k].id \in idSeq..(idSeq' - 1)}

C18_OnlyProductsDropped ==
    [][ \A d \in {f \in ImportFiles : Accepted(f) /\ f.top = "object"} :
          LET Named(r) == ~IsNull(r.name)
              Dated(r) == ~IsNull(r.date)
              Whole(r) == HasId(r) /\ Named(r)
              Partial(r) == ~Whole(r)
              DatedNoId(r) == Dated(r) /\ LacksId(r)
              NamedNoId(r) == Named(r) /\ LacksId(r)
              Sized(r) == Named(r) /\ r.liters.ty # "absent"
              About(field) == {k \in 1..Len(last'.errors) :
                                  /\ last'.errors[k].field = field
                                  /\ last'.errors[k].msg # NotArrayWarning(field).msg}
          IN  /\ Len(products') = Cardinality(Objects(d.products, Whole))
              /\ Cardinality(About("products")) = Cardinality(Objects(d.products, Partial))
              /\ Len(salesHistory') = Cardinality(Objects(d.salesHistory, Dated))
              /\ Cardinality(Generated(salesHistory')) =
                    Cardinality(Objects(d.salesHistory, DatedNoId))
              /\ Len(expenses') = Cardinality(Objects(d.expenses, AnyRecord))
              /\ Cardinality(Generated(expenses')) = Cardinality(Objects(d.expenses, LacksId))
              /\ Len(expenseCategories') = Cardinality(Objects(d.expenseCategories, Named))
              /\ Cardinality(Generated(expenseCategories')) =
                    Cardinality(Objects(d.expenseCategories, NamedNoId))
              /\ Len(presentations') >= Cardinality(Objects(d.presentations, Sized))
              /\ About("expenses") = {}
              /\ About("expenseCategories") = {}
              /\ About("presentations") = {}
              /\ Cardinality(About("salesHistory")) =
                    Cardinality(Objects(d.salesHistory, AnyRecord))
                  - Cardinality(Objects(d.salesHistory, Dated)) ]_vars

\* a file was imported whose four first collections each hold a record
\* without id: the product is gone, the three others are in the state
C18_Witness ==
    /\ LastWas("importData", "warned")
    /\ ~IsNull(doc)
    /\ Val(doc).top = "object"
    /\ Val(doc).products = ArrayOf(<<FileProductNoId, Null, FileProduct>>)
    /\ Val(doc).salesHistory = ArrayOf(<<FileSaleNoId, Null>>)
    /\ Val(doc).expenses = ArrayOf(<<FileExpenseBare, Null>>)
    /\ Val(doc).expenseCategories = ArrayOf(<<FileCategoryNoId, FileCategoryNoName, FileCategory>>)
    /\ Len(products) = 1
    /\ Len(salesHistory) = 1
    /\ Len(expenses) = 1
    /\ Len(expenseCategories) = 2

(***************************************************************************)
(* C19: after every successful import, whatever the presentations array   *)
(* of the file holds, the registry has a protected "500ml" of 0.5 liters   *)
(* and a protected "1L" of 1 liter.                                        *)
(***************************************************************************)
HasProtected(name, liters) ==
    \E k \in 1..Len(presentations) :
        /\ presentations[k].name = name
        /\ presentations[k].liters = liters
        /\ presentations[k].isProtected

C19_BaseReasserted ==
    (last.op = "importData" /\ last.outcome \in {"ok", "warned"})
    => (HasProtected("500ml", 5) /\ HasProtected("1L", 10))

(***************************************************************************)
(* C20: a file that is no JSON, or whose top-level value is no JSON        *)
(* object (null, a number, an array), is refused: the import reports an    *)
(* error and the state and the stored document stay as they were.          *)
(***************************************************************************)
C20_NonObjectRefused ==
    [][ \A d \in {f \in ImportFiles : doc' = Some(f) /\ f.top # "object"} :
          /\ last'.op = "importData"
          /\ last'.outcome \in {"error", "invalid"}
          /\ Len(last'.errors) <= 1
          /\ Data' = Data
          /\ stored' = stored ]_vars

(***************************************************************************)
(* C21: exporting the state and importing the exported document.  As       *)
(* stated: products, salesHistory, expenses, expenseCategories and         *)
(* presentations come back equal to what was exported and                  *)
(* posActiveProducts is empty.  As amended: products, salesHistory and     *)
(* expenseCategories come back equal; an expense comes back with its       *)
(* amount parsed to a number; the registry comes back as Storage.load      *)
(* leaves it: the exported entries in their order, one that is "500ml" of  *)
(* 0.5 or "1L" of 1 protected, and behind them a protected base entry for  *)
(* each base that no exported entry shares the name or the size of;        *)
(* posActiveProducts is empty.                                             *)
(***************************************************************************)
Restored == ~IsNull(doc) /\ last'.op = "importData" /\ last'.outcome \in {"ok", "warned"}

\* the statement as made
C21_RoundTrip ==
    [][ Restored =>
          /\ Exported(Data').products = Val(doc).products
          /\ Exported(Data').salesHistory = Val(doc).salesHistory
          /\ Exported(Data').expenses = Val(doc).expenses
          /\ Exported(Data').expenseCategories = Val(doc).expenseCategories
          /\ Exported(Data').presentations = Val(doc).presentations
          /\ posActiveProducts' = <<>> ]_vars

\* an expense of the file with its amount as a number
AmountParsed(e) ==
    Some([Val(e) EXCEPT !.amount =
             IF @.ty \in {"number", "string"} THEN Num(@.v) ELSE Num(0)])

\* a registry entry of the file, protected when it is a base presentation
BaseProtected(e) ==
    LET p == Val(e)
        base == \/ (p.name = Some("500ml") /\ p.liters = Num(5))
                \/ (p.name = Some("1L") /\ p.liters = Num(10))
    IN  Some([p EXCEPT !.isProtected = @ \/ base])

\* no entry of the file has the name or the size
Missing(entries, name, liters) ==
    \A k \in 1..Len(entries) :
        Val(entries[k]).name # Some(name) /\ Val(entries[k]).liters # Num(liters)

C21_RoundTripNormalised ==
    [][ Restored =>
          LET file == Val(doc)
              back == Exported(Data')
              n == Len(file.presentations.a)
              added == SubSeq(back.presentations.a, n + 1, Len(back.presentations.a))
              needs500 == Missing(file.presentations.a, "500ml", 5)
              needs1L == Missing(file.presentations.a, "1L", 10)
          IN  /\ back.products = file.products
              /\ back.salesHistory = file.salesHistory
              /\ back.expenseCategories = file.expenseCategories
              /\ Len(back.expenses.a) = Len(file.expenses.a)
              /\ \A k \in 1..Len(file.expenses.a) :
                    back.expenses.a[k] = AmountParsed(file.expenses.a[k])
              /\ Len(back.presentations.a) >= n
              /\ \A k \in 1..n :
                    back.presentations.a[k] = BaseProtected(file.presentations.a[k])
              /\ Len(added) = (IF needs500 THEN 1 ELSE 0) + (IF needs1L THEN 1 ELSE 0)
              /\ needs500 => /\ Val(added[1]).name = Some("500ml")
                             /\ Val(added[1]).liters = Num(5)
                             /\ Val(added[1]).isProtected
              /\ needs1L => /\ Val(added[Len(added)]).name = Some("1L")
                            /\ Val(added[Len(added)]).liters = Num(10)
                            /\ Val(added[Len(added)]).isProtected
              /\ posActiveProducts' = <<>> ]_vars

\* the backup was taken with no session, an expense and "500ml" renamed and
\* resized; it was imported while a session was running
C21_Witness ==
    /\ LastWas("importData", "ok")
    /\ ~IsNull(doc)
    /\ steps = MaxBackup
    /\ Len(Val(doc).expenses.a) = 1
    /\ Val(Val(doc).presentations.a[1]).name = Some("Chico")
    /\ Len(presentations) = 3
    /\ Len(expenses) = 1
    /\ posActiveProducts = <<>>
    /\ stack # <<>>

(***************************************************************************)
(* C22: closePosDay on a session in which no item has a positive count.    *)
(* Confirmed, it appends one record with totalAmount 0 and no line items   *)
(* and clears the session; declined, it leaves salesHistory, the session   *)
(* and the undo log as they were.                                          *)
(***************************************************************************)
NothingSold(session) ==
    \A pos \in ItemPositions(session) : ItemAt(session, pos).count <= 0

C22_ZeroCloseAllowed ==
    [][ \A confirmed \in BOOLEAN :
          (closePosDay(confirmed) /\ NothingSold(posActiveProducts))
          => IF confirmed
             THEN /\ Len(salesHistory') = Len(salesHistory) + 1
                  /\ SubSeq(salesHistory', 1, Len(salesHistory)) = salesHistory
                  /\ salesHistory'[Len(salesHistory')].totalAmount = 0
                  /\ salesHistory'[Len(salesHistory')].items = <<>>
                  /\ posActiveProducts' = <<>>
             ELSE /\ salesHistory' = salesHistory
                  /\ posActiveProducts' = posActiveProducts
                  /\ stack' = stack ]_vars

\* the close of a day whose counters went up and back to 0 was declined:
\* both entries and the two snapshots are still there
C22_Witness ==
    /\ LastWas("closePosDay", "declined")
    /\ Len(posActiveProducts) = 2
    /\ NothingSold(posActiveProducts)
    /\ Len(stack) = 2

(***************************************************************************)
(* C23: every successful updatePosItemCount, resetProductCounts or         *)
(* resetPresentationCount pushes exactly one snapshot, equal to the whole  *)
(* session as it was before the operation's change; undoPosAction takes    *)
(* exactly one snapshot off the log and pushes none.                       *)
(***************************************************************************)
C23_OneSnapshotBefore ==
    [][ /\ Pushed =>
             /\ posActiveProducts' # posActiveProducts
             /\ stack' = IF Len(stack) < maxSize
                         THEN Append(stack, posActiveProducts)
                         ELSE Append(Tail(stack), posActiveProducts)
        /\ (last'.op = "undoPosAction" /\ last'.outcome = "ok") =>
             /\ Len(stack) > 0
             /\ stack' = SubSeq(stack, 1, Len(stack) - 1)
        /\ (last'.op = "undoPosAction" /\ last'.outcome # "ok") =>
             /\ stack = <<>>
             /\ stack' = stack ]_vars

\* a count went to 2 and the product was reset: the newest snapshot is the
\* session with the count of 2, the one below it the session as started
C23_Witness ==
    /\ LastWas("resetProductCounts", "ok")
    /\ Len(stack) = 2
    /\ Len(posActiveProducts) = 2
    /\ NothingSold(posActiveProducts)
    /\ \E pos \in ItemPositions(stack[2]) : ItemAt(stack[2], pos).count = 2
    /\ NothingSold(stack[1])

(***************************************************************************)
(* C24: presentation ids are assigned monotonically: the id a new          *)
(* presentation is given, by addPresentation or by Storage.load, is        *)
(* greater than every id assigned before, so the id of a deleted           *)
(* presentation is never given again.                                      *)
(***************************************************************************)
C24_IdsNeverReused ==
    [][ \A k \in 1..Len(presentations') :
          presentations'[k].id \notin RegistryIds
          => \A id \in assigned : presentations'[k].id > id ]_vars

(***************************************************************************)
(* C25: in every state reached from a first run by addPresentation,        *)
(* saveEditedPresentation, deletePresentation and Storage.load, exactly    *)
(* two presentations are protected: the two of the first run (ids 1 and    *)
(* 2), whatever they were renamed or resized to.                           *)
(***************************************************************************)
ProtectedPositions == {k \in 1..Len(presentations) : presentations[k].isProtected}

C25_TwoProtected ==
    /\ Cardinality(ProtectedPositions) = 2
    /\ {presentations[k].id : k \in ProtectedPositions} = {1, 2}

(***************************************************************************)
(* C26: the install of the service worker completes even when the fetch of *)
(* one or more of the ASSETS fails, and the assets that could be fetched   *)
(* are in the cache.                                                       *)
(***************************************************************************)
C26_InstallSurvivesFailure ==
    (worker.state \in {"installed", "redundant"})
    => (worker.state = "installed" /\ worker.cache = worker.fetched)

(***************************************************************************)
(* C30: Views.closeModal() without argument closes the modal that is       *)
(* shown: once the pending timers have fired after the call, no modal      *)
(* overlay remains in the document, also when the call comes within 200 ms *)
(* of a renderModal that replaced an earlier modal.                        *)
(***************************************************************************)
C30_CloseClosesShown ==
    (modal.closing /\ modal.timers = <<>>) => modal.overlays = <<>>

(***************************************************************************)
(* C27: a confirmed deleteAllData leaves the state of a first run:         *)
(* products, salesHistory, expenses and the session empty, the undo log    *)
(* empty, the registry with exactly the two protected seeded               *)
(* presentations, and the three seeded categories Mercancia, Sueldos and   *)
(* Servicios.                                                              *)
(***************************************************************************)
C27_DeleteAllIsFirstRun ==
    LastWas("deleteAllData", "ok")
    => /\ products = <<>>
       /\ salesHistory = <<>>
       /\ expenses = <<>>
       /\ posActiveProducts = <<>>
       /\ stack = <<>>
       /\ presentations = SeedPresentations
       /\ [k \in 1..Len(expenseCategories) |-> expenseCategories[k].name]
             = <<"Mercancia", "Sueldos", "Servicios">>

(***************************************************************************)
(* C28: every product of the catalog references at least one              *)
(* presentation, whatever saveProduct, addPresentation,                    *)
(* saveEditedPresentation and deletePresentation did.                      *)
(***************************************************************************)
C28_ProductsHavePresentations ==
    \A i \in 1..Len(products) : Len(products[i].presentations) > 0

LaterEntrySplit(session) ==
    \E i \in 2..Len(session) :
        Cardinality({k \in 1..Len(session[i].presentationItems) :
                        session[i].presentationItems[k].count > 0}) >= 2

====
